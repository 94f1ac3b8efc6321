----------------------------- MODULE ThreadPool -----------------------------
(***************************************************************************)
(* src/lib/concurrent/threadpool.c: the thread pool of libvci.             *)
(*                                                                         *)
(* Worker threads take tasks from task_queue_in and, once a task's func    *)
(* has run, move it to task_queue_out.  A semaphore counts the entries of  *)
(* each queue, a mutex guards each queue, and an eventfd tells the user    *)
(* how many tasks were completed.  thread_map holds the handles of the     *)
(* threads the pool still has to join; sem_exit (one token) arbitrates     *)
(* between a worker that retires by itself and threadpool_destroy().       *)
(*                                                                         *)
(* One action is one step of one thread up to its next blocking call or    *)
(* shared access.  "pc" names the call a thread is about to make.  Threads *)
(* are cancelled with deferred cancellation: Die is enabled only at the    *)
(* cancellation points (sem_wait, eventfd_write, pthread_join, and         *)
(* whatever the task's own func calls), never inside pthread_mutex_lock(). *)
(* EINTR is retried by the code and is a stuttering step here.             *)
(***************************************************************************)
EXTENDS Integers, Sequences, FiniteSets, Functions

CONSTANTS
    Workers,      \* threads pthread_create() can return
    Clients,      \* threads of the program outside the pool
    Creator,      \* the client that creates and destroys the pool
    Tasks,        \* the user's struct threadpool_task objects
    ExitTasks,    \* struct exit_task blocks malloc() can return
    None,
    InitThreads,  \* the argument of threadpool_new()
    SemMax,       \* SEM_VALUE_MAX
    EventMax,     \* largest value of an eventfd counter
    Ops,          \* the operations clients call
    TaskOps,      \* the operations a task's func calls
    Faults        \* the calls that may fail: "create", "insert"

Agents == Workers \cup Clients
AllTasks == Tasks \cup ExitTasks

ASSUME ThreadsAssumption ==
    /\ Creator \in Clients
    /\ Workers \cap Clients = {}
    /\ None \notin Agents
    /\ IsFiniteSet(Agents)

ASSUME TasksAssumption ==
    /\ Tasks \cap ExitTasks = {}
    /\ None \notin AllTasks

ASSUME LimitsAssumption ==
    /\ InitThreads \in Nat
    /\ SemMax \in Nat \ {0}
    /\ EventMax \in Nat \ {0}

ASSUME OpsAssumption ==
    /\ Ops \subseteq {"add_task", "remove_thread", "add_thread", "take",
                      "direct_take", "tasks_queued", "destroy"}
    /\ TaskOps \subseteq {"add_task", "remove_thread", "add_thread",
                          "tasks_queued"}
    /\ Faults \subseteq {"create", "insert"}

VARIABLES
    pc,              \* the call each thread is about to make
    job,             \* the task in a worker's hand
    arg,             \* the task an add_task call carries
    target,          \* the thread an agent is creating or joining
    task_queue_in,   \* the pending tasks, oldest first
    task_queue_out,  \* the completed tasks, oldest first
    sem_queue_in, sem_queue_out, sem_exit,
    mutex,           \* the owner of mutex_queue_in, mutex_queue_out, mutex_map
    thread_map,      \* the threads whose handle is in pool->thread_map
    thread,          \* what the C library knows of each thread
    canceled,        \* the threads with a cancellation request pending
    event_fd,        \* the counter of the eventfd
    due,             \* completed tasks a client has read but not taken yet
    given,           \* tasks the pool is responsible for
    executed,        \* tasks whose func has returned since they were added
    pool             \* the life of the pool

handVars   == <<job, arg, target>>
queueVars  == <<task_queue_in, task_queue_out>>
semVars    == <<sem_queue_in, sem_queue_out, sem_exit>>
threadVars == <<thread_map, thread, canceled>>
eventVars  == <<event_fd, due>>
taskVars   == <<given, executed>>
vars == <<pc, handVars, queueVars, semVars, mutex, threadVars,
          eventVars, taskVars, pool>>

-----------------------------------------------------------------------------
(* Where a thread stands *)

InSection  == {"take_in", "add_post", "add_insert", "tq_read"}
OutSection == {"post_out", "insert_out", "take_out"}
MapSection == {"reg_insert", "exit_take", "clear", "clear_join"}
Leaving    == {"exit_post_own", "exit_post_lost", "leave_own", "leave_lost"}

ClientPcs ==
    {"init", "idle", "add_lock", "add_post", "add_insert", "take_wait",
     "take_lock", "take_out", "reg_lock", "reg_insert", "reg_cancel",
     "reg_join", "tq_lock", "tq_read", "destroy_sem", "destroy_lock",
     "clear", "clear_join", "destroy_post", "destroy_free"}

WorkerPcs ==
    {"none", "wait_in", "lock_in", "take_in", "run", "lock_out", "post_out",
     "insert_out", "event", "exit_sem", "exit_lock", "exit_take",
     "add_lock", "add_post", "add_insert", "reg_lock", "reg_insert",
     "reg_cancel", "reg_join", "tq_lock", "tq_read"} \cup Leaving

At(a, l) == pc[a] = l

Goto(a, l) == pc' = [pc EXCEPT ![a] = l]

\* mutant: the section is entered without waiting for the mutex
AcquireNoWait(a, m) == mutex' = [mutex EXCEPT ![m] = a]

\* pthread_mutex_lock(): waits for the mutex, and is no cancellation point
Acquire(a, m) == mutex[m] = None /\ mutex' = [mutex EXCEPT ![m] = a]

\* pthread_mutex_unlock() of a default mutex releases it whoever owns it
Release(m) == mutex' = [mutex EXCEPT ![m] = None]

Lock(a, from, m, to) ==
    /\ At(a, from)
    /\ Acquire(a, m)
    /\ Goto(a, to)
    /\ UNCHANGED <<handVars, queueVars, semVars, threadVars, eventVars,
                   taskVars, pool>>

\* mutant: the token of sem_exit is taken without waiting for it
WaitExitNoGuard(a, from, to) ==
    /\ At(a, from)
    /\ sem_exit' = sem_exit - 1
    /\ Goto(a, to)
    /\ UNCHANGED <<handVars, queueVars, sem_queue_in, sem_queue_out, mutex,
                   threadVars, eventVars, taskVars, pool>>

\* sem_wait() and sem_post() on sem_exit
WaitExit(a, from, to) ==
    /\ At(a, from)
    /\ sem_exit > 0
    /\ sem_exit' = sem_exit - 1
    /\ Goto(a, to)
    /\ UNCHANGED <<handVars, queueVars, sem_queue_in, sem_queue_out, mutex,
                   threadVars, eventVars, taskVars, pool>>

\* mutant: the token of sem_exit is never given back
PostExitForgets(a, from, to) ==
    /\ At(a, from)
    /\ Goto(a, to)
    /\ UNCHANGED <<handVars, queueVars, semVars, mutex, threadVars, eventVars,
                   taskVars, pool>>

PostExit(a, from, to) ==
    /\ At(a, from)
    /\ sem_exit' = sem_exit + 1
    /\ Goto(a, to)
    /\ UNCHANGED <<handVars, queueVars, sem_queue_in, sem_queue_out, mutex,
                   threadVars, eventVars, taskVars, pool>>

\* where an operation of the pool returns to
Back(a) == IF a \in Workers THEN "run" ELSE
           IF pool = "init" THEN "init" ELSE "idle"

\* Clients call a live pool, and nobody outside the pool calls it once its
\* destruction has begun.  A task's func may call the pool at any time.
MayCall(a, op) ==
    \/ a \in Clients /\ At(a, "idle") /\ pool = "live" /\ op \in Ops
    \/ a \in Workers /\ At(a, "run") /\ job[a] \in Tasks /\ op \in TaskOps

\* another thread is in the section mutex_queue_out should protect
Race(a) == \E b \in Agents \ {a} : pc[b] \in OutSection

-----------------------------------------------------------------------------
(* threadpool_add_task() and threadpool_remove_thread() *)

AddTask(a) ==
    /\ MayCall(a, "add_task")
    /\ \E t \in Tasks \ given :
        /\ arg' = [arg EXCEPT ![a] = t]
        /\ given' = given \cup {t}
        /\ executed' = executed \ {t}
    /\ Goto(a, "add_lock")
    /\ UNCHANGED <<job, target, queueVars, semVars, mutex, threadVars,
                   eventVars, pool>>

\* allocates an exit task and hands it to threadpool_add_task()
RemoveThread(a) ==
    /\ MayCall(a, "remove_thread")
    /\ \E t \in ExitTasks \ given :
        /\ arg' = [arg EXCEPT ![a] = t]
        /\ given' = given \cup {t}
    /\ Goto(a, "add_lock")
    /\ UNCHANGED <<job, target, queueVars, semVars, mutex, threadVars,
                   eventVars, executed, pool>>

AddLock(a) == Lock(a, "add_lock", "in", "add_post")

\* mutant: the wrong semaphore is posted
AddPostSwapped(a) ==
    /\ At(a, "add_post")
    /\ sem_queue_out < SemMax
    /\ sem_queue_out' = sem_queue_out + 1
    /\ Goto(a, "add_insert")
    /\ UNCHANGED <<handVars, queueVars, sem_queue_in, sem_exit, mutex,
                   threadVars, eventVars, taskVars, pool>>

AddPost(a) ==
    /\ At(a, "add_post")
    /\ sem_queue_in < SemMax
    /\ sem_queue_in' = sem_queue_in + 1
    /\ Goto(a, "add_insert")
    /\ UNCHANGED <<handVars, queueVars, sem_queue_out, sem_exit,
                   mutex, threadVars, eventVars, taskVars, pool>>

\* sem_post() fails with EOVERFLOW: the task stays with the caller, and
\* threadpool_remove_thread() frees its exit task
AddPostFails(a) ==
    /\ At(a, "add_post")
    /\ sem_queue_in = SemMax
    /\ Release("in")
    /\ given' = given \ {arg[a]}
    /\ arg' = [arg EXCEPT ![a] = None]
    /\ Goto(a, Back(a))
    /\ UNCHANGED <<job, target, queueVars, semVars, threadVars, eventVars,
                   executed, pool>>

\* mutant: the task is inserted at the end it is taken from
AddInsertFront(a) ==
    /\ At(a, "add_insert")
    /\ task_queue_in' = <<arg[a]>> \o task_queue_in
    /\ Release("in")
    /\ arg' = [arg EXCEPT ![a] = None]
    /\ Goto(a, Back(a))
    /\ UNCHANGED <<job, target, task_queue_out, semVars, threadVars, eventVars,
                   taskVars, pool>>

AddInsert(a) ==
    /\ At(a, "add_insert")
    /\ task_queue_in' = Append(task_queue_in, arg[a])
    /\ Release("in")
    /\ arg' = [arg EXCEPT ![a] = None]
    /\ Goto(a, Back(a))
    /\ UNCHANGED <<job, target, task_queue_out, semVars, threadVars,
                   eventVars, taskVars, pool>>

-----------------------------------------------------------------------------
(* threadpool_add_thread() *)

\* pthread_create(): the new thread starts in _thread_handle_tasks()
Create(a, w) ==
    /\ thread[w] = "free"
    /\ At(w, "none")
    /\ thread' = [thread EXCEPT ![w] = "live"]
    /\ target' = [target EXCEPT ![a] = w]
    /\ pc' = [pc EXCEPT ![a] = "reg_lock", ![w] = "wait_in"]
    /\ UNCHANGED <<job, arg, queueVars, semVars, mutex, thread_map, canceled,
                   eventVars, taskVars, pool>>

AddThread(a) ==
    /\ MayCall(a, "add_thread")
    /\ \E w \in Workers : Create(a, w)

RegLock(a) == Lock(a, "reg_lock", "map", "reg_insert")

RegInsert(a) ==
    /\ At(a, "reg_insert")
    /\ thread_map' = thread_map \cup {target[a]}
    /\ Release("map")
    /\ target' = [target EXCEPT ![a] = None]
    /\ Goto(a, Back(a))
    /\ UNCHANGED <<job, arg, queueVars, semVars, thread, canceled, eventVars,
                   taskVars, pool>>

\* map_insert() fails (no memory, or no slot): cancel and join the thread
RegInsertFails(a) ==
    /\ At(a, "reg_insert")
    /\ "insert" \in Faults
    /\ Release("map")
    /\ Goto(a, "reg_cancel")
    /\ UNCHANGED <<handVars, queueVars, semVars, threadVars,
                   eventVars, taskVars, pool>>

\* mutant: the thread is joined without being cancelled
CancelNothing(w) == canceled' = canceled

\* pthread_cancel(): without effect on a thread that has terminated
Cancel(w) == canceled' = IF thread[w] = "live" THEN canceled \cup {w}
                                               ELSE canceled

RegCancel(a) ==
    /\ At(a, "reg_cancel")
    /\ Cancel(target[a])
    /\ Goto(a, "reg_join")
    /\ UNCHANGED <<handVars, queueVars, semVars, mutex, thread_map,
                   thread, eventVars, taskVars, pool>>

\* mutant: the thread is not waited for
JoinNoWait(a) ==
    /\ thread' = [thread EXCEPT ![target[a]] = "free"]
    /\ target' = [target EXCEPT ![a] = None]

\* pthread_join() returns once the thread has terminated
Join(a) ==
    /\ thread[target[a]] = "exited"
    /\ thread' = [thread EXCEPT ![target[a]] = "free"]
    /\ target' = [target EXCEPT ![a] = None]

\* cleanup8 of threadpool_init() calls map_destroy(), without a lock
RegJoin(a) ==
    /\ At(a, "reg_join")
    /\ Join(a)
    /\ IF pool = "init"
       THEN pool' = "aborting" /\ Goto(a, "clear")
       ELSE pool' = pool /\ Goto(a, Back(a))
    /\ UNCHANGED <<job, arg, queueVars, semVars, mutex, thread_map, canceled,
                   eventVars, taskVars>>

-----------------------------------------------------------------------------
(* threadpool_init() *)

\* The loop that starts the threads.  No thread can retire before the pool is
\* handed to its user, so thread_map counts the rounds.
InitThread(a) ==
    /\ At(a, "init")
    /\ Cardinality(thread_map) < InitThreads
    /\ \E w \in Workers : Create(a, w)

InitThreadFails(a) ==
    /\ At(a, "init")
    /\ Cardinality(thread_map) < InitThreads
    /\ "create" \in Faults
    /\ pool' = "aborting"
    /\ Goto(a, "clear")
    /\ UNCHANGED <<handVars, queueVars, semVars, mutex, threadVars,
                   eventVars, taskVars>>

\* the queues are initialised after the threads were started
InitDone(a) ==
    /\ At(a, "init")
    /\ Cardinality(thread_map) = InitThreads
    /\ task_queue_in' = <<>>
    /\ task_queue_out' = <<>>
    /\ pool' = "live"
    /\ Goto(a, "idle")
    /\ UNCHANGED <<handVars, semVars, mutex, threadVars, eventVars, taskVars>>

-----------------------------------------------------------------------------
(* threadpool_destroy() and the map_destroy() of a failed threadpool_init() *)

\* close(pool->event_fd)
Destroy(a) ==
    /\ a = Creator
    /\ MayCall(a, "destroy")
    /\ \A c \in Clients : At(c, "idle")
    /\ pool' = "closing"
    /\ Goto(a, "destroy_sem")
    /\ UNCHANGED <<handVars, queueVars, semVars, mutex, threadVars,
                   eventVars, taskVars>>

DestroySem(a) == WaitExit(a, "destroy_sem", "destroy_lock")

DestroyLock(a) == Lock(a, "destroy_lock", "map", "clear")

\* map_clear() calls _thread_delete() on the handles, in the map's order
Clear(a) ==
    /\ At(a, "clear")
    /\ \E w \in thread_map :
        /\ Cancel(w)
        /\ thread_map' = thread_map \ {w}
        /\ target' = [target EXCEPT ![a] = w]
    /\ Goto(a, "clear_join")
    /\ UNCHANGED <<job, arg, queueVars, semVars, mutex, thread, eventVars,
                   taskVars, pool>>

ClearJoin(a) ==
    /\ At(a, "clear_join")
    /\ Join(a)
    /\ Goto(a, "clear")
    /\ UNCHANGED <<job, arg, queueVars, semVars, mutex, thread_map, canceled,
                   eventVars, taskVars, pool>>

ClearDone(a) ==
    /\ At(a, "clear")
    /\ thread_map = {}
    /\ pool = "closing"
    /\ Release("map")
    /\ Goto(a, "destroy_post")
    /\ UNCHANGED <<handVars, queueVars, semVars, threadVars,
                   eventVars, taskVars, pool>>

AbortDone(a) ==
    /\ At(a, "clear")
    /\ thread_map = {}
    /\ pool = "aborting"
    /\ pool' = "freed"
    /\ Goto(a, "idle")
    /\ UNCHANGED <<handVars, queueVars, semVars, mutex, threadVars,
                   eventVars, taskVars>>

DestroyPost(a) == PostExit(a, "destroy_post", "destroy_free")

\* queue_destroy(.., NULL) forgets the tasks that are left; the semaphores,
\* the mutexes and the pool itself go
DestroyFree(a) ==
    /\ At(a, "destroy_free")
    /\ task_queue_in' = <<>>
    /\ task_queue_out' = <<>>
    /\ pool' = "freed"
    /\ Goto(a, "idle")
    /\ UNCHANGED <<handVars, semVars, mutex, threadVars, eventVars, taskVars>>

-----------------------------------------------------------------------------
(* eventfd_read() and threadpool_take_completed_task() *)

\* the user's protocol: read the counter, then take that many tasks
EventRead(a) ==
    /\ MayCall(a, "take")
    /\ event_fd > 0
    /\ due' = [due EXCEPT ![a] = @ + event_fd]
    /\ event_fd' = 0
    /\ UNCHANGED <<pc, handVars, queueVars, semVars, mutex, threadVars,
                   taskVars, pool>>

Take(a) ==
    /\ MayCall(a, "take")
    /\ due[a] > 0
    /\ due' = [due EXCEPT ![a] = @ - 1]
    /\ Goto(a, "take_wait")
    /\ UNCHANGED <<handVars, queueVars, semVars, mutex, threadVars,
                   event_fd, taskVars, pool>>

\* a user that never looks at the eventfd
DirectTake(a) ==
    /\ MayCall(a, "direct_take")
    /\ Goto(a, "take_wait")
    /\ UNCHANGED <<handVars, queueVars, semVars, mutex, threadVars,
                   eventVars, taskVars, pool>>

TakeWait(a) ==
    /\ At(a, "take_wait")
    /\ sem_queue_out > 0
    /\ sem_queue_out' = sem_queue_out - 1
    /\ Goto(a, "take_lock")
    /\ UNCHANGED <<handVars, queueVars, sem_queue_in, sem_exit,
                   mutex, threadVars, eventVars, taskVars, pool>>

TakeLock(a) == Lock(a, "take_lock", "out", "take_out")

\* mutant: the completed task is read but stays in the queue
TakeOutKeeps(a) ==
    /\ At(a, "take_out")
    /\ task_queue_out # <<>>
    /\ Release("out")
    /\ given' = given \ {Head(task_queue_out)}
    /\ Goto(a, Back(a))
    /\ UNCHANGED <<handVars, queueVars, semVars, threadVars, eventVars,
                   executed, pool>>

\* a race on the list may leave the link in it
TakeOut(a) ==
    /\ At(a, "take_out")
    /\ task_queue_out # <<>>
    /\ \/ task_queue_out' = Tail(task_queue_out)
       \/ Race(a) /\ task_queue_out' = task_queue_out
    /\ Release("out")
    /\ given' = given \ {Head(task_queue_out)}
    /\ Goto(a, Back(a))
    /\ UNCHANGED <<handVars, task_queue_in, semVars, threadVars,
                   eventVars, executed, pool>>

-----------------------------------------------------------------------------
(* threadpool_tasks_queued() *)

TasksQueued(a) ==
    /\ MayCall(a, "tasks_queued")
    /\ Goto(a, "tq_lock")
    /\ UNCHANGED <<handVars, queueVars, semVars, mutex, threadVars,
                   eventVars, taskVars, pool>>

TqLock(a) == Lock(a, "tq_lock", "in", "tq_read")

\* locks mutex_queue_in, unlocks mutex_queue_out
TqRead(a) ==
    /\ At(a, "tq_read")
    /\ Release("out")
    /\ Goto(a, Back(a))
    /\ UNCHANGED <<handVars, queueVars, semVars, threadVars,
                   eventVars, taskVars, pool>>

-----------------------------------------------------------------------------
(* _thread_handle_tasks() *)

WaitIn(w) ==
    /\ At(w, "wait_in")
    /\ sem_queue_in > 0
    /\ sem_queue_in' = sem_queue_in - 1
    /\ Goto(w, "lock_in")
    /\ UNCHANGED <<handVars, queueVars, sem_queue_out, sem_exit,
                   mutex, threadVars, eventVars, taskVars, pool>>

LockIn(w) == Lock(w, "lock_in", "in", "take_in")

TakeIn(w) ==
    /\ At(w, "take_in")
    /\ task_queue_in # <<>>
    /\ job' = [job EXCEPT ![w] = Head(task_queue_in)]
    /\ task_queue_in' = Tail(task_queue_in)
    /\ Release("in")
    /\ Goto(w, "run")
    /\ UNCHANGED <<arg, target, task_queue_out, semVars, threadVars,
                   eventVars, taskVars, pool>>

\* mutant: the task is completed without having been executed
RunTaskSkips(w) ==
    /\ At(w, "run")
    /\ job[w] \in Tasks
    /\ Goto(w, "lock_out")
    /\ UNCHANGED <<handVars, queueVars, semVars, mutex, threadVars, eventVars,
                   taskVars, pool>>

\* mutant: the event is written before the task is in task_queue_out
RunTaskEarlyEvent(w) ==
    /\ At(w, "run")
    /\ job[w] \in Tasks
    /\ executed' = executed \cup {job[w]}
    /\ event_fd' = event_fd + 1
    /\ Goto(w, "lock_out")
    /\ UNCHANGED <<handVars, queueVars, semVars, mutex, threadVars, due, given,
                   pool>>

\* task->func(task) returns
RunTask(w) ==
    /\ At(w, "run")
    /\ job[w] \in Tasks
    /\ executed' = executed \cup {job[w]}
    /\ Goto(w, "lock_out")
    /\ UNCHANGED <<handVars, queueVars, semVars, mutex, threadVars,
                   eventVars, given, pool>>

LockOut(w) == Lock(w, "lock_out", "out", "post_out")

PostOut(w) ==
    /\ At(w, "post_out")
    /\ sem_queue_out < SemMax
    /\ sem_queue_out' = sem_queue_out + 1
    /\ Goto(w, "insert_out")
    /\ UNCHANGED <<handVars, queueVars, sem_queue_in, sem_exit,
                   mutex, threadVars, eventVars, taskVars, pool>>

\* sem_post() fails with EOVERFLOW: the task is dropped, its event is not
PostOutFails(w) ==
    /\ At(w, "post_out")
    /\ sem_queue_out = SemMax
    /\ Release("out")
    /\ job' = [job EXCEPT ![w] = None]
    /\ Goto(w, "event")
    /\ UNCHANGED <<arg, target, queueVars, semVars, threadVars, eventVars,
                   taskVars, pool>>

\* a race on the list may lose the link
InsertOut(w) ==
    /\ At(w, "insert_out")
    /\ \/ task_queue_out' = Append(task_queue_out, job[w])
       \/ Race(w) /\ task_queue_out' = task_queue_out
    /\ Release("out")
    /\ job' = [job EXCEPT ![w] = None]
    /\ Goto(w, "event")
    /\ UNCHANGED <<arg, target, task_queue_in, semVars, threadVars,
                   eventVars, taskVars, pool>>

\* eventfd_write() waits while the counter is full, and fails once the file
\* descriptor is closed; the result is ignored
Event(w) ==
    /\ At(w, "event")
    /\ w \notin canceled
    /\ IF pool = "live"
       THEN event_fd < EventMax /\ event_fd' = event_fd + 1
       ELSE event_fd' = event_fd
    /\ Goto(w, "wait_in")
    /\ UNCHANGED <<handVars, queueVars, semVars, mutex, threadVars,
                   due, taskVars, pool>>

\* a cancellation request is acted upon: the thread ends and can be joined
Die(w) ==
    /\ w \in canceled
    /\ \/ pc[w] \in {"wait_in", "event", "exit_sem", "reg_join"}
       \/ At(w, "run") /\ job[w] \in Tasks
    /\ thread' = [thread EXCEPT ![w] = "exited"]
    /\ canceled' = canceled \ {w}
    /\ job' = [job EXCEPT ![w] = None]
    /\ target' = [target EXCEPT ![w] = None]
    /\ Goto(w, "none")
    /\ UNCHANGED <<arg, queueVars, semVars, mutex, thread_map, eventVars,
                   taskVars, pool>>

-----------------------------------------------------------------------------
(* _exit_task_thread() and _thread_exit() *)

\* frees the exit task, then enters sem_wait(), a cancellation point
RunExit(w) ==
    /\ At(w, "run")
    /\ job[w] \in ExitTasks
    /\ given' = given \ {job[w]}
    /\ job' = [job EXCEPT ![w] = None]
    /\ IF w \in canceled
       THEN /\ thread' = [thread EXCEPT ![w] = "exited"]
            /\ canceled' = canceled \ {w}
            /\ Goto(w, "none")
       ELSE /\ Goto(w, "exit_sem")
            /\ UNCHANGED <<thread, canceled>>
    /\ UNCHANGED <<arg, target, queueVars, semVars, mutex, thread_map,
                   eventVars, executed, pool>>

ExitSem(w) == WaitExit(w, "exit_sem", "exit_lock")

ExitLock(w) == Lock(w, "exit_lock", "map", "exit_take")

\* mutant: the handle is looked up but stays in the map
ExitTakeKeeps(w) ==
    /\ At(w, "exit_take")
    /\ Release("map")
    /\ Goto(w, IF w \in thread_map THEN "exit_post_own" ELSE "exit_post_lost")
    /\ UNCHANGED <<handVars, queueVars, semVars, threadVars, eventVars,
                   taskVars, pool>>

ExitTake(w) ==
    /\ At(w, "exit_take")
    /\ thread_map' = thread_map \ {w}
    /\ Release("map")
    /\ Goto(w, IF w \in thread_map THEN "exit_post_own" ELSE "exit_post_lost")
    /\ UNCHANGED <<handVars, queueVars, semVars, thread, canceled,
                   eventVars, taskVars, pool>>

ExitPost(w) == \/ PostExit(w, "exit_post_own", "leave_own")
               \/ PostExit(w, "exit_post_lost", "leave_lost")

\* mutant: the thread ends without pthread_detach()
LeaveJoinable(w) ==
    /\ pc[w] \in {"leave_own", "leave_lost"}
    /\ thread' = [thread EXCEPT ![w] = "exited"]
    /\ canceled' = canceled \ {w}
    /\ Goto(w, "none")
    /\ UNCHANGED <<handVars, queueVars, semVars, mutex, thread_map, eventVars,
                   taskVars, pool>>

\* pthread_detach() only when the handle was still in the map
Leave(w) ==
    /\ pc[w] \in {"leave_own", "leave_lost"}
    /\ thread' = [thread EXCEPT ![w] = IF At(w, "leave_own") THEN "free"
                                                            ELSE "exited"]
    /\ canceled' = canceled \ {w}
    /\ Goto(w, "none")
    /\ UNCHANGED <<handVars, queueVars, semVars, mutex, thread_map,
                   eventVars, taskVars, pool>>

-----------------------------------------------------------------------------
(* The specification *)

\* threadpool_init() has created the eventfd, the locks and the map
Init ==
    /\ pc = [a \in Agents |-> IF a = Creator THEN "init" ELSE
                              IF a \in Clients THEN "idle" ELSE "none"]
    /\ job = [w \in Workers |-> None]
    /\ arg = [a \in Agents |-> None]
    /\ target = [a \in Agents |-> None]
    /\ task_queue_in = <<>> /\ task_queue_out = <<>>
    /\ sem_queue_in = 0 /\ sem_queue_out = 0 /\ sem_exit = 1
    /\ mutex = [m \in {"in", "out", "map"} |-> None]
    /\ thread_map = {}
    /\ thread = [w \in Workers |-> "free"]
    /\ canceled = {}
    /\ event_fd = 0
    /\ due = [c \in Clients |-> 0]
    /\ given = {} /\ executed = {}
    /\ pool = "init"

\* the calls a thread is free to make or not to make
Call(a) ==
    \/ AddTask(a) \/ RemoveThread(a) \/ AddThread(a) \/ TasksQueued(a)
    \/ EventRead(a) \/ Take(a) \/ DirectTake(a) \/ Destroy(a)

\* the steps that finish an operation of the pool
Continue(a) ==
    \/ AddLock(a) \/ AddPost(a) \/ AddPostFails(a) \/ AddInsert(a)
    \/ RegLock(a) \/ RegInsert(a) \/ RegInsertFails(a) \/ RegCancel(a)
    \/ RegJoin(a) \/ InitThread(a) \/ InitThreadFails(a) \/ InitDone(a)
    \/ TakeWait(a) \/ TakeLock(a) \/ TakeOut(a) \/ TqLock(a) \/ TqRead(a)
    \/ DestroySem(a) \/ DestroyLock(a) \/ Clear(a) \/ ClearJoin(a)
    \/ ClearDone(a) \/ AbortDone(a) \/ DestroyPost(a) \/ DestroyFree(a)

\* the steps of a worker's own loop
Work(w) ==
    \/ WaitIn(w) \/ LockIn(w) \/ TakeIn(w) \/ RunTask(w) \/ LockOut(w)
    \/ PostOut(w) \/ PostOutFails(w) \/ InsertOut(w) \/ Event(w) \/ Die(w)
    \/ RunExit(w) \/ ExitSem(w) \/ ExitLock(w) \/ ExitTake(w) \/ ExitPost(w)
    \/ Leave(w)

Next == \/ \E a \in Agents : Call(a) \/ Continue(a)
        \/ \E w \in Workers : Work(w)

Spec == Init /\ [][Next]_vars

\* The scheduler runs every thread that can run, semaphores and mutexes serve
\* their waiters, and a task's func returns.  Nobody has to call the pool.
Fairness == /\ \A a \in Agents : WF_vars(Continue(a))
            /\ \A w \in Workers : WF_vars(Work(w))

FairSpec == Spec /\ Fairness

-----------------------------------------------------------------------------
(* Correctness *)

TypeOK ==
    /\ pc \in [Agents -> ClientPcs \cup WorkerPcs]
    /\ \A c \in Clients : pc[c] \in ClientPcs
    /\ \A w \in Workers : pc[w] \in WorkerPcs
    /\ job \in [Workers -> AllTasks \cup {None}]
    /\ arg \in [Agents -> AllTasks \cup {None}]
    /\ target \in [Agents -> Workers \cup {None}]
    /\ task_queue_in \in Seq(AllTasks) /\ task_queue_out \in Seq(AllTasks)
    /\ sem_queue_in \in Nat /\ sem_queue_out \in Nat /\ sem_exit \in Nat
    /\ mutex \in [{"in", "out", "map"} -> Agents \cup {None}]
    /\ thread_map \subseteq Workers
    /\ thread \in [Workers -> {"free", "live", "exited"}]
    /\ canceled \subseteq Workers
    /\ event_fd \in Nat
    /\ due \in [Clients -> Nat]
    /\ given \subseteq AllTasks /\ executed \subseteq AllTasks
    /\ pool \in {"init", "live", "closing", "aborting", "freed"}

\* threadpool_tasks_queued() is not called: it unlocks a mutex it does not own
UnlocksOwnMutex == "tasks_queued" \notin Ops \cup TaskOps

\* Each queue and the map is touched by one thread at a time: whoever is
\* between lock and unlock owns the mutex.
LocksHeld ==
    \A a \in Agents :
        /\ pc[a] \in InSection => mutex["in"] = a
        /\ UnlocksOwnMutex /\ pc[a] \in OutSection => mutex["out"] = a
        /\ pc[a] \in MapSection /\ pool # "aborting" => mutex["map"] = a

Count(S) == Cardinality({a \in Agents : pc[a] \in S})

\* The tokens of sem_queue_in and the threads that hold one stand for the
\* entries of task_queue_in and those about to be inserted.
InTokens ==
    pool # "freed" =>
        sem_queue_in + Count({"lock_in", "take_in"})
            = Len(task_queue_in) + Count({"add_insert"})

\* The same for sem_queue_out and task_queue_out.
OutTokens ==
    pool # "freed" /\ UnlocksOwnMutex =>
        sem_queue_out + Count({"take_lock", "take_out"})
            = Len(task_queue_out) + Count({"insert_out"})

\* queue_take() is never called on an empty queue, whose result container_of()
\* would turn into a wild pointer.
NoEmptyTake ==
    pool # "freed" => \A a \in Agents :
        /\ At(a, "take_in") => task_queue_in # <<>>
        /\ UnlocksOwnMutex /\ At(a, "take_out") => task_queue_out # <<>>

Places(t) ==
    Cardinality({i \in DOMAIN task_queue_in : task_queue_in[i] = t})
    + Cardinality({i \in DOMAIN task_queue_out : task_queue_out[i] = t})
    + Cardinality({w \in Workers : job[w] = t})
    + Cardinality({a \in Agents : arg[a] = t})

\* A task given to the pool is in one place and never in two, and while the
\* pool is alive and nothing fails it is not lost either.
TaskInOnePlace ==
    \A t \in AllTasks :
        /\ Places(t) <= (IF t \in given THEN 1 ELSE 0)
        /\ t \in given /\ pool = "live" /\ Faults = {}
              /\ SemMax >= Cardinality(AllTasks) => Places(t) = 1

\* A completed task has been executed, and no exit task is ever completed.
CompletedExecuted ==
    \A i \in DOMAIN task_queue_out : task_queue_out[i] \in executed \cap Tasks

\* Whoever reads n from the eventfd may take n tasks without waiting: the
\* events, read or not, never outnumber the tokens of sem_queue_out.
EventBacked ==
    "direct_take" \notin Ops /\ SemMax >= Cardinality(AllTasks) =>
        event_fd + FoldFunction(+, 0, due)
            + Cardinality({c \in Clients : At(c, "take_wait")})
        <= sem_queue_out

\* threadpool_destroy() and cleanup8 of threadpool_init() return only when
\* no thread will touch the pool any more.
NoUseAfterFree ==
    pool = "freed" =>
        \A w \in Workers : pc[w] \in {"none", "leave_own", "leave_lost"}

\* A handle that will be cancelled or joined denotes a thread that exists and
\* does not detach itself.
HandlesValid ==
    \A w \in Workers :
        w \in thread_map \/ (\E a \in Agents : target[a] = w) =>
            /\ thread[w] # "free"
            /\ pc[w] \notin {"exit_post_own", "leave_own"}

\* Every thread is going to be joined or to detach itself: its handle is in
\* the map or in the hand of the thread that creates or joins it.
ThreadsTracked ==
    \A w \in Workers : thread[w] # "free" =>
        \/ w \in thread_map
        \/ \E a \in Agents : target[a] = w
        \/ pc[w] \in {"exit_post_own", "leave_own"}

ExitHolders ==
    {w \in Workers : pc[w] \in {"exit_lock", "exit_take", "exit_post_own",
                                "exit_post_lost"}}
    \cup {c \in Clients :
            \/ pc[c] \in {"destroy_lock", "destroy_post"}
            \/ pc[c] \in {"clear", "clear_join"} /\ pool = "closing"}

\* sem_exit has one token: a thread that retires and threadpool_destroy()
\* never work on the thread map at the same time.
ExitExclusive == sem_exit + Cardinality(ExitHolders) = 1

\* The memory of every exit task is deallocated by the thread that takes it
\* (the comment in threadpool_remove_thread()), so none outlives the pool.
ExitTasksFreed == pool = "freed" => given \cap ExitTasks = {}

\* threadpool_destroy(), and a threadpool_init() that fails, come to an end.
DestroyCompletes == pool \in {"closing", "aborting"} ~> pool = "freed"

\* A thread that took an exit task ends, by itself or because it is cancelled.
RetireCompletes == \A w \in Workers : At(w, "exit_sem") ~> At(w, "none")

\* A task that was added is executed as long as a thread is left to do so.
TaskServed ==
    \A t \in Tasks :
        t \in given ~> t \in executed \/ \A w \in Workers : thread[w] # "live"

TP == INSTANCE TaskPool WITH
        Threads <- Workers, Items <- AllTasks, Nothing <- None,
        pending <- task_queue_in, running <- job, completed <- task_queue_out

\* The pool implements the first-in first-out service of TaskPool.
ImplementsTaskPool == TP!Spec
=============================================================================
