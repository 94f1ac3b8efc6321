# Specifications of libvci

libvci is a small C library: a thread pool, the containers it is built on, and
utilities.  This directory holds TLA+ specifications of its core, the TLC runs
that check them on small instances, and machine-checked proofs about the thread
pool, the hash map, the AVL tree, the lists, the heap, the vector, the buffer, the
memory pool, the configuration, the options, the log and the clock.  Paths below are
relative to the repository; the source files live under `src/lib`.

    tlc -config ThreadPoolCore.cfg MCThreadPool.tla     # check one run
    tlapm ThreadPoolProofs.tla                          # check the proofs

`PROJECT.json` lists the components, the runs, for every definition the source
lines it stands for, the hazards of the code with the properties that cover
them, and for every property of a passing run a plausible bug that breaks it
(the definitions marked "mutant", or named after what goes wrong, just before
the definition they would replace; no specification uses them).

## 1. Inventory

| component | source | state | operations | status |
|---|---|---|---|---|
| thread pool | `concurrent/threadpool.c` | two task queues, each with a mutex and a semaphore; a map of thread handles with a mutex; `sem_exit`; an eventfd | init, destroy, add/remove thread, add task, take completed task, tasks_queued, event_fd; the worker loop; retirement of a worker | modelled |
| hash map | `container/map.c`, `container_p.c` | table of slots, size, capacity, bounds, static flag | init, insert, take, retrieve, rehash, clear, resize | modelled |
| AVL tree | `container/avltree.c` | root and size; nodes with key, children, parent and height | insert, retrieve, take, take_min/max, destroy, postorder iteration | modelled |
| list, queue, stack | `container/list.c`, `queue.c`, `stack.c` | rings of links; a size | insert, take, clear, merge, at | partly |
| heap | `container/heap.c` | array, size, capacity, data_delete | insert, take, retrieve, clear, destroy, resize | modelled |
| vector | `container/vector.c` | array, size, capacity, data_compare | insert/take at, take, take_all, sort, sorted insert, take and search, set_capacity, squeeze, clear | modelled |
| buffer | `container/buffer.c` | bytes, size, used, accessed | prepare_write, write, read, clear_*, squeeze, clone | modelled |
| memory pool | `util/mempool.c` | a lazily built free list in the caller's memory | alloc, free | modelled |
| clock | `util/clock.c` | start, current, active | start, stop, continue, reset, clear, elapsed | modelled |
| options | `util/options.c` | the caller's options; during a call a map of flags | parse | modelled |
| configuration | `util/config.c`, `config_parser.c` | path, parsed text, a map of keys and one of handles; the file, shared with other processes | init, parse, set_path, handles, destroy | modelled |
| log | `util/log.c` | flags, level, FILE, clock | init, append, printf, clear, print, set_file, destroy | partly: what reaches the file, not its formatting |
| filesystem | `util/filesystem.c` | none: the file system's | path_create, path_remove, tests | partly: `path_create()`, as `config_init()` uses it |
| random, hash, compare, error | `util/*.c` | none | arithmetic on single values, output | not modelled |

How they interact.  The thread pool keeps its tasks in two `queue`s and its
thread handles in a `map`; `queue` and `stack` are a `list` with a size; the
option parser and the configuration look names up in a `map`; the heap, the
vector, the buffer and the map share `get_nice_size()`.  Everything is a direct
call except for two callbacks: a task's `func` runs in a worker without any lock
and may call the pool again, and the map's `data_delete` (for the pool
`_thread_delete()`, which cancels and joins a thread) runs in `map_clear()`
while the pool holds `mutex_map`.  Only the thread pool has threads; the other
components are sequential and leave locking to their users.  Two of them meet
other processes through the file system: `config_init()` creates the file of a
configuration, and a log appends to a file that outlives the process.

What is hard.

* Thread pool: tokens are posted before the entry is in the queue; threads
  retire by themselves, race their own registration, and race the destruction of
  the pool; the destruction cancels and joins threads while it holds a mutex,
  and a thread that waits for a mutex cannot be cancelled; `sem_post()`,
  `pthread_create()` and `map_insert()` may fail with the work half done.
  Correct means: no task lost or served twice, first in first out, tokens equal
  to entries, every thread joined or detached exactly once, none alive when the
  memory is freed, destruction ends.
* Hash map: a resize fills the new table with `map_insert()`, which may resize
  the table it is filling, fail for want of memory and go on, or give up with
  EBADSLT half way; removals leave tombstones.  Correct means: entries are never
  lost, duplicated or hidden, and `size` counts them.
* AVL tree: rebalancing walks up along parent pointers that the same operation
  is changing.  Correct means: ordered, balanced, child and parent pointers in
  agreement, every member found.
* Lists: four pointers change one after the other.  Correct means: both
  directions of a ring agree and the order is kept.
* Arrays (heap, vector, buffer): growing and shrinking with `realloc()` that may
  fail, searches and sizes in unsigned arithmetic that wraps around.  Correct
  means: the greatest first, the same answer as a look at every element, the
  bytes in the order they were written, and no access outside of the array.
* Memory pool: the free list is written one chunk at a time while chunks come
  back in any order.  Correct means: every chunk has one owner.
* Clock: differences of two-part times, pauses, continuations.  Correct means:
  the time it ran, whatever second began in between.
* Options: the position on the command line moves inside a loop over the flags of
  one argument.  Correct means: each text belongs to the flag before it.
* Configuration: keys and values point into a text that the next parsing
  replaces; the file is made by whoever comes first, and may be left half made.
  Correct means: no pointer outlives its text, the first text is written once.
* Log: what is written is buffered until a line is complete.  Correct means: a
  line that was logged is in the file, in order, after a crash too.

## 2. Modules

| module | models | |
|---|---|---|
| `ThreadPool` | `threadpool.c`, one action per step between blocking calls | extended by `MCThreadPool` (symmetry, the end of the program) and by the proofs |
| `TaskPool` | what the pool promises: first-in first-out service | refined by `ThreadPool` (`ImplementsTaskPool`) |
| `Sizes` | `get_nice_size()`: powers of two | used by `HashMap` and `Calls` |
| `HashMap` | `map.c` | values in `MCHashMap` |
| `MultiMap` | what `map.h` promises | refined by `HashMap` (`ImplementsMultiMap`) |
| `AvlTree` | `avltree.c`, pointer by pointer | values in `MCAvlTree` |
| `OrderedSet` | what `avltree.h` promises | refined by `AvlTree` (`ImplementsOrderedSet`) |
| `LinkedList` | `list.c`, `queue.c`, `stack.c`, pointer by pointer | |
| `Deques` | what `list.h`, `queue.h`, `stack.h` promise | refined by `LinkedList` (`ImplementsDeques`) |
| `Heap`, `Vector`, `Buffer`, `MemPool` | `heap.c`, `vector.c`, `buffer.c`, `mempool.c`; they share `Calls` (the width of an unsigned int, how a call ends) | composed by `MCParts` |
| `PriorityQueue`, `ByteStream`, `Stopwatch` | what a heap, a buffer, a clock promises | refined by `Heap` (`HeapServes`), `Buffer` (`BufferStreams`), `Clock` (`ClockAgrees`) |
| `Clock`, `Options`, `Log` | `clock.c`, `options.c`, `log.c` | composed by `MCParts` |
| `Config` | `config.c`, `config_parser.c` in one process | composed by `MCParts` |
| `ConfigFile` | `config_init()` and `path_create()` by processes that share a directory | composed by `MCParts` |
| `MCParts` | one of these objects at a time; values of the constants | |
| `ThreadPoolProofs`, `ThreadPoolTasks` | theorems for any number of threads, clients and tasks | the second extends the first |
| `HashMapProofs`, `AvlTreeProofs`, `LinkedListProofs` | theorems for any entries and hashes, any nodes and keys, any heads and links | |
| `UtilProofs` | theorems about `ConfigFile`, `Config`, `Log`, `Clock` and `Options` | |
| `PartsProofs` | theorems about `Heap`, `Vector`, `Buffer`, `MemPool`, and about all parts as they are composed | extends `MCParts` |
| `Induction` | induction over numbers and finite sets, functions defined by recursion, powers of two, counting, parts of sequences | used by the proofs |

### ThreadPool

`pc[a]` names the call thread `a` is about to make: `add_lock`, `add_post`,
`add_insert` are the three steps of `threadpool_add_task()`, `reg_*` the rest of
`threadpool_add_thread()` after `pthread_create()`, `take_*` and `tq_*` those of
the two taking and asking functions, `destroy_*` and `clear*` of
`threadpool_destroy()`; `wait_in` to `event` are the worker loop, `exit_*` and
`leave_*` are `_thread_exit()`.  `task_queue_in`, `task_queue_out`,
`sem_queue_in`, `sem_queue_out`, `sem_exit`, `thread_map` and `event_fd` are the
fields of the same name; `mutex` gives the owner of each of the three mutexes.
`thread` and `canceled` are what the C library knows of a thread.  `given`,
`executed` and `due` are what the callers know: the tasks the pool is
responsible for, those whose func has returned, and the events a client has read
and not used.  They guard only what a caller may do, such as not adding a task
that is in the pool already.

Modelling decisions.

* Cancellation is deferred (the default): `Die` is enabled at cancellation points
  only: `sem_wait()`, `eventfd_write()`, `pthread_join()`, and the task's func.
  `sem_wait()` and `pthread_mutex_lock()` wait for their guard; EINTR, which the
  code retries, is a stuttering step.
* A default mutex unlocked by a thread that does not own it is simply released
  (what glibc does; POSIX leaves it undefined).  When `threadpool_tasks_queued()`
  has opened `mutex_queue_out` under its owner, two threads may be in the
  section, and a list operation in it may lose its effect (`Race`).
* `eventfd_write()` blocks at `EventMax`.  It fails, and is ignored, once
  `threadpool_destroy()` has closed the descriptor.
* Clients call the pool between its creation and its destruction, and nobody
  outside calls it while it is destroyed: the comment at `threadpool.c:307-312`
  asks for that.  Tasks may call it at any time.
* `Init` is the state in which `threadpool_init()` starts its threads; the
  failures before that point leave nothing behind.  A `pthread_create()` that
  fails outside `threadpool_init()` changes nothing and is not a step.
* The thread map is a set: that `map.c` behaves like one is the subject of
  `HashMap`.  `map_insert()` may fail (`Faults`).

### HashMap

`table`, `size`, `capacity`, `static_size` and `data_delete` are the fields.  A
slot is `Vacant`, `Removed` or an entry; slots count from 1.  `Insert` and `Resize`
work on the table as a value and call each other like the functions.  `mem` is the
number of `calloc()` calls that still succeed, chosen for each call, so that memory
may run out at any depth of a nested resize.  Each resize uses one of them up, which
is what the recursion rests on: `Grown` gives what the loop in `map_insert()` makes of
any map, first for maps that have no allocation left, then for maps that have one
more.  `result` is what the last call
returned; `MultiMap` relates it to the entries held.  The loop over `offset`
1, 3, 5, ... tries the slots 0, 1, 4, 9, ... after the first (`Probes`).

### AvlTree

A tree is a record of functions from nodes to nodes, and `struct avlnode **` is a
record of a node and a side.  `_avlnode_rotate_left()` and `_right()` are mirror
images and one operator, `Rotate`: `Turn` does what concerns the nodes, and the
pointer at which they hang follows last.  `members` are the nodes the caller has
inserted and not got back.  `Climb` is one turn of the rebalancing loop, and
`Rebalance` makes `MaxWalk` of them: a walk along the parent pointers that has not
ended by then goes round in a circle, is a call that never returns, and the last
one.  `Drained` is the loop of `avltree_destroy()`, which takes the root until there
is none.  A node that was taken out belongs to the caller; its fields are reset once nothing
in the tree points to it (`Released`), which no later step can notice, because an
insertion writes all of them first.

### LinkedList

`next` and `prev` are the pointers of heads and links.  A taken link keeps its old
pointers, as in the code.  `Around` follows one direction from a head and is at
the same time `list_for_each()` and the refinement mapping to `Deques`.  A caller
inserts a link that is in no list, asks a queue or a stack whether it is empty
before taking, and merges into an empty list.

### The sequential parts

Each of these modules has one variable that holds the object (`heap`, `vec`,
`buf`, `pool`, `clock`, `opts`, `config`, `disk`, `log`) and is `None` while there
is none.  `returned` is what the last call returned; the abstract specifications
relate it to the contents.  A call that would leave the memory of its object, free
something twice, or never end sets `fault` to the name of its function; nothing is
known of the program then, and nothing more happens.  A property names the
circumstances under which each fault occurs, so that a fault under any other is a
violation: faults that the code has are not hidden by guards.

* `Calls`: an unsigned int wraps at `UIntRange`; sizes of type `size_t` do not, and
  are cut off where the code hands them to `get_nice_size()`.
* `Heap`: `data` holds the slots in use; `HeapifyUp` and `HeapifyDown` follow the
  path of one element.  A failing `realloc()` is reported by `heap_insert()` and
  ignored by `heap_take()`.
* `Vector`: `IndexOfSorted` and `PlaceSorted` are the two binary searches, loop by
  loop, with `r` wrapping below zero.  `Outside` is a read beyond the elements.
* `Buffer`: `granted` is the caller's promise: write no more than
  `buffer_prepare_write()` asked for, read no more than
  `buffer_bytes_accessible()`.  `large` remembers that `buffer_prepare_write()` was
  asked for room for more than `Quarter` (2^30) bytes in all: only then can the size
  have been cut off by `get_nice_size()`.
* `MemPool`: `links` is the first word of each chunk, `init` the border of the part
  of the list that has been written.
* `Clock`: `now` is the clock of the system, which moves between calls and inside
  `clock_continue()`.  Calls other than the reads return nothing in `Stopwatch` too, so that
  only a read may be mapped to a read.
* `Options`: a step handles one flag.  `token` is the argument whose flags are read,
  `i` the variable of that name, which runs ahead of it.
* `Config`: a step of the parser handles a blank, a comment, a key, or a value.
  `handles` counts the handles of each key: `map_insert()` keeps several, a call takes
  one away, and the parser calls one of them.
  `mem` says what the pointer of that name leads to: nothing, a text, or one that
  was freed.  `ConfigFile`: a step is a system call of one process; any process may
  die between two.
* `Log`: `sent` is what was written since the file was cleared, `pending` what
  stdio still holds, `file` what a reader finds.

## 3. Runs

| run | bounds | shows |
|---|---|---|
| `pool_core` | 2 workers, 2 clients, 3 tasks, 1 exit task, semaphores that hold them all | locks, tokens, entries and events agree; no task is lost, doubled or completed without having run; the pool implements `TaskPool`; no deadlock |
| `pool_exit` | 2 workers, 1 client, 3 tasks, 1 exit task, tasks that add tasks and remove threads, semaphores to 2, failing `pthread_create()` and `map_insert()` | every thread is joined or detached once, none outlives the pool, `sem_exit` is exclusive |
| `pool_live` | 2 workers, 2 clients, 1 task, 2 exit tasks, failures | destruction and retirement end, tasks are executed |
| `pool_queued_hang` | 1 worker | finding: destruction hangs after `threadpool_tasks_queued()` |
| `pool_nested_hang` | 2 workers | finding: destruction hangs if a task adds a thread meanwhile |
| `pool_exit_leak` | 1 worker | finding: an exit task that nobody took is never freed |
| `map_core` | 5 entries of 4 keys, 2 of them of one key and 3 keys with colliding hashes; tables of 4 to 16 slots; `calloc()` failing at once, after one success, never | nothing is lost, doubled or hidden; the table implements `MultiMap` |
| `avl_outer` | 9 nodes, one with a key twice; nodes are taken while they have at most one child | order, balance, postorder, ends of walks; the tree implements `OrderedSet` |
| `avl_inner` | 7 nodes, any node is taken | finding: members are lost |
| `lists` | 2 lists, a queue, a stack, 3 links | rings closed both ways, sizes, order |
| `parts` | an unsigned int of 3 bits, arrays from 2 slots, buffers from 1 byte, 5 elements of 4 ranks; pools of up to 11 bytes; a second of 4 ticks, times to 9; command lines of 4 arguments, then 2; texts of 3 lines, then 1, up to 2 handles of a key; 3 processes, 2 directories; 4 elements in a log | the promises of each part, and when a call leaves its memory |
| `config_reparse` | texts of 1 line | finding: a text is freed twice |

Why these bounds are enough to be of interest.  The pool's races are between
pairs: two workers, a worker and a client, a worker and the destroyer, so two
workers and two clients contain them, and a third thread only adds repetition;
what the proofs cover holds for every number.  Two tasks distinguish orders.
In `pool_core` the semaphores hold all tasks, because a task dropped by a full
semaphore is lost while its event is still written, so that `EventBacked` and the
second half of `TaskInOnePlace` are promised for semaphores with room only.  They
overflow in `pool_exit`, where they end at two; that tokens and entries stay in step
then is not run but proved, for every limit (`TokensCountPending`,
`TokensCountCompleted`).  A table of four slots that
grows to sixteen contains both resizes, the nested one, and a refusal.  Nine AVL
nodes reach height 3, where a removal rotates more than once.  Three links give
every way of being first, last and in the middle of a ring.

In `parts` an unsigned int ends at 7, so that a capacity of 4 doubles to 0: what
the program does with 2^31 elements happens with four.  Starting at two, an array
doubles, is halved, and is refused in between.  A buffer starts below `Quarter`,
which is two here, as it does in the program; what happens beyond differs.  The sizes and chunk sizes of a pool
have every remainder, below and above a word.  A second of four ticks makes a
difference borrow in most cases.  Four arguments are a flag with two texts and
another one, or two flags of one argument with a text each; the second call is
about what the first one leaves behind.  The nine lines are assignments with and
without blanks, a comment, an empty line, an assignment without a key, and the four
ways of going wrong (no sign, no value, a comment for a value, no end of line).
Three processes are one that creates the file, one that dies, and one that finds
what they left.  `vector_take_sorted()` is followed up to `TopBit` - 1 elements,
beyond which `l + r` itself wraps.

Deadlock is checked in `pool_core` and `pool_live` (where `MCThreadPool` adds the
end of the program as a step), in `map_core` and `lists`, and for the AVL tree.
It is not checked in `pool_exit` and `pool_queued_hang`, because
`threadpool_tasks_queued()` leaves a mutex locked; in `pool_nested_hang`, whose
subject is that the system stops; and in `parts` and `config_reparse`, where a fault
is the end.  In `pool_exit` the client moreover takes tasks without looking at the
eventfd, and may wait for one that was dropped.

Fairness (`pool_live` and the two hangs): weak fairness of the steps that carry on
an operation of the pool (`Continue`) and of a worker's own loop (`Work`), for
each thread.  The kernel schedules every thread that can run, semaphores and
mutexes serve a waiter that stays alone, and a task's func returns.  No client
has to call anything.  Weak fairness does not exclude that a thread waiting for a
mutex is overtaken for ever by threads that keep taking it; the runs' finite sets
of tasks exclude that, and `RetireCompletes` is therefore claimed for a finite
number of requests.

## 4. Findings

* `threadpool_tasks_queued()` locks `mutex_queue_in` and unlocks
  `mutex_queue_out`.  Afterwards everything that needs `mutex_queue_in` stops, and
  `threadpool_destroy()` joins for ever a worker that waits for it.
* A task's func that calls `threadpool_add_thread()` while the pool is being
  destroyed waits for `mutex_map`; the destroying thread holds it and waits for
  that worker.  The comment at `threadpool.c:307-312` warns of threads outside the
  pool only.
* An exit task still queued at destruction is forgotten by
  `queue_destroy(.., NULL)`, and only the queue knew it.
* `_avltree_take_node()` does not make the replacing node the parent of the
  children it is given.  Insert 1, 2, 3, take 2, insert another node of key 2: the
  rebalancing goes through the removed node, and the node that was just inserted is
  not found.

* `config_parse()` frees the text before it knows whether the file can be read
  again.  If not, `mem` still points at the freed text: the next `config_parse()` or
  `config_destroy()` frees it once more.  `config_test.c:105` says that "multiple
  parser runs shouldn't have an effect on ressource allocations".

Met while modelling, and recorded as hazards only, because nothing in the
repository states what should happen: `list_merge()` into a list with elements
loses them; `list_clear()` with a function leaves the head pointing at what it
freed; `heap_clear()` with a function leaves `size` at UINT_MAX;
`vector_index_of_sorted()` reads outside of the array when it looks for something
less than every element; `vector_take_all()` leaves every second of several
neighbours that match; `_buffer_remove()` touches one byte too many; a memory pool whose size is
no multiple of the chunk size writes past its end; `path_create()` reads past a
path that ends in a slash; `clock_stop()` on a stopped clock counts the pause; an
empty file of a configuration stays behind when its creator dies.  Of
`heap_clear()`, the search, the buffer and the memory pool `parts` checks that they
leave their memory under the named circumstances and no others; of
`vector_take_all()`, that nothing worse happens; of the empty file, that only a death
leaves it.  The path and the pause of the clock are modelled as they are.

The proofs met one more: a worker in `threadpool_add_thread()` whose `map_insert()`
failed may be cancelled by `threadpool_destroy()` inside its own `pthread_join()`
(`threadpool.c:361-364`), so that the thread it started is joined by nobody and may
run on in the freed pool.  It takes a task that adds threads and a failure of
`map_insert()`; no run has both, and the theorems name it as what they exclude
(`JoinsUndisturbed`).

They also corrected what was said of the buffer.  That a grant fits as long as it and
what is used stay below 2^30 bytes is false: once a size has wrapped the buffer is
smaller than what it has promised, and `buffer_clear()` then makes the numbers small
again without making the grant good.  With buffers that start at `Quarter` bytes the
instance had not shown it; `large`, which is never taken back, says it right.

## 5. Proofs

### The thread pool

For every finite set of workers and clients, any tasks, any limits, any set of
operations and of faults that satisfy the assumptions in `ThreadPool`:

| theorem | says |
|---|---|
| `TypeCorrect` | `Spec => []TypeOK`: in particular no semaphore becomes negative |
| `MutualExclusion` | `Spec => []LocksHeld`: who is between lock and unlock owns the mutex |
| `TokensCountPending`, `TokensCountCompleted` | `Spec => []InTokens`, `Spec => []OutTokens`: tokens and queue entries match |
| `QueuesNeverUnderflow` | `Spec => []NoEmptyTake`: `queue_take()` never meets an empty queue |
| `HandlesStayValid` | `Spec => []HandlesValid`: no handle is cancelled or joined after its thread was joined or detached |
| `ExitIsExclusive` | `Spec => []ExitExclusive`: one thread at a time holds `sem_exit` |
| `EveryThreadTracked` | `JoinsUndisturbed` implies `Spec => []ThreadsTracked`: no thread is forgotten |
| `NoThreadOutlivesPool` | `TasksAddNoThread` implies `Spec => []NoUseAfterFree` |
| `NoTaskLostOrDoubled` | `UnlocksOwnMutex` and a finite set of tasks imply `Spec => []TaskInOnePlace` |
| `OnlyExecutedCompleted` | the same imply `Spec => []CompletedExecuted` |
| `PoolImplementsTaskPool` | `TasksAddNoThread` implies `Spec => ImplementsTaskPool`: the step simulation of first in, first out |
| `EventsNeverOutnumberTasks` | `UnlocksOwnMutex` and a finite set of tasks imply `Spec => []EventBacked`: who takes one task per event never waits |

The conditions say what the program must not do:

* `UnlocksOwnMutex`: `threadpool_tasks_queued()` is not called, which opens
  `mutex_queue_out` under its owner (`OutTokens` and the parts of `LocksHeld` and
  `NoEmptyTake` about the completed tasks say so themselves).
* `JoinsUndisturbed`: tasks do not call `threadpool_add_thread()`, or its
  `map_insert()` does not fail.  Otherwise a worker is cancelled inside its own
  `pthread_join()` (see section 4).
* `TasksAddNoThread`: tasks do not call `threadpool_add_thread()`.  With a failing
  `map_insert()` the theorems are false without it, for the same reason.  Otherwise it
  is more than they need, but a task that adds a thread during the destruction makes
  it hang (`pool_nested_hang`), and a proof about what comes after would say little.

The tasks have to be finitely many for counting only: `TaskInOnePlace` and
`EventBacked` compare numbers with `Cardinality`.

`ThreadPoolProofs` rests on the inductive invariant

    IInv == TypeInv /\ Startup /\ LocksHeld /\ InTokens /\ OutTokens

`TypeInv` is `TypeOK` with `PcData`: a thread about to insert a task has one in
its hand, and one about to register or join a thread has one.  Without it the
queues could not be shown to hold tasks only.  `Startup` says that
`threadpool_init()` works alone: the code starts the threads first and initialises
the queues afterwards, so the tokens could be out of step with the queues were it
not that no thread has found a token by then.  `LocksHeld` makes sure that two
threads are never between the post and the insertion, or at the taking, of one
queue.  `NoEmptyTake` then follows by counting: the thread at `take_in` is one of
those that hold a token, `add_insert` is empty because the mutex is taken, so the
queue is at least one long.  The counting uses the theorems on finite sets of the
library (`Enter`, `Exit`: a thread entering or leaving a set of program points).

For the lives of the threads it adds

    LInv == IInv /\ Handles /\ HandlesValid /\ Destruction /\ Joiners /\ ExitExclusive

`Handles` says that the handle of a live thread is in one hand: in the map, with the
thread that enters it there, or with the one that joins it.  `HandlesValid` needs it
(what is joined is in nobody else's hand), and it needs `HandlesValid` (what is in the
map has not ended).  `Destruction` says that the creator destroys the pool alone,
`Joiners` when nobody joins threads in `threadpool_add_thread()`.  `EndInv` adds
`ThreadsTracked` and `LastThreads`: the map is empty once it has been cleared, so the
threads that are left detach themselves, and when the destroyer has got `sem_exit`
back each of them is past its last use of the pool, which is why `DestroyFree` is
safe.

`ThreadPoolTasks` adds

    TInv == LInv /\ HandsEmpty /\ Placed /\ Served /\ Kept

`HandsEmpty`: who is at a step without a task has none in its hand.  `Placed`: a task
has at most one place, and is one the pool was given.  `Served`: it was executed
before it was completed.  `Kept`: while the pool is alive, nothing fails and the
semaphores have room, nobody is cancelled and a task that was given has a place.  The
refinement takes the two queues and the jobs of the workers for those of `TaskPool`;
every action is a step of `TaskPool` or leaves these alone.

`EventBacked` needs `Backed` besides: the events in the descriptor and in the
clients' hands, with the workers that are about to write one and the clients that
are about to take a task, against the tokens.  What is due to the clients is a sum
over a set; that a sum grows with one of its terms is an induction over finite sets.

Each of the step lemmas has one step per action.

### The hash map

For any entries, keys and hashes, any bounds of the load and any smallest size that
is a power of two:

| theorem | says |
|---|---|
| `TableStaysTyped` | `Spec => []TypeOK`: the capacity stays a power of two |
| `SizeStaysExact` | `Spec => []SizeCounts`: `size` counts the entries, none is in two slots |
| `EntriesStayReachable` | `Spec => []Reachable`: no gap between the first slot tried and an entry |
| `TableIsMultiMap` | `Spec => ImplementsMultiMap`: every call is a step of the map that `map.h` promises |

`Sound` is the invariant, of a table as a value: the capacity is a power of two, no
entry is in two slots, `size` is the number of the slots with one, and each entry is
`Findable`, at a slot tried for its key with no vacant slot tried before.  A key's
first slot with an entry of it is then what `map_lookup()` returns (`LookupFinds`), an
insertion that finds a slot adds its entry and hides nothing (`PutAdds`), a tombstone
hides nothing either (`DropRemoves`).  A resize starts from an empty table; after
every slot of the old one the new table holds the entries met so far (`MovedHolds`),
even if the insertion has resized it in between, by the induction over the
allocations that are left (`GrownGrows`).  When the loop is given up the old table is
put back, so that a resize never changes what is held (`ResizeKeeps`).

### The AVL tree

For any finite set of nodes and any keys, with or without equal ones, as long as
`avltree_take()` is called for nodes with at most one child (`OuterTakes`).  With two
children it does what the finding `avl_inner` shows, and the theorems are false:

| theorem | says |
|---|---|
| `TreeIsSound` | `Spec => []TreeInv`: the inductive invariant |
| `TreeCountsMembers` | `Spec => []CountsMembers`: `size` is the number of members |
| `TreeRetrievesMembers` | `Spec => []RetrievesMembers`: every member is found, and nothing else |
| `TreeBalanced` | `Spec => []Balanced`: heights are right, sides differ by one at most |
| `TreeCallsReturn` | `Spec => []CallsReturn`: walks to the root and the destruction end |
| `TreePostorderVisitsAll` | `Spec => []PostorderVisitsAll`: the iteration meets every member once, children first |
| `TreeImplementsOrderedSet` | `Spec => ImplementsOrderedSet`: every call is a step of the set `avltree.h` promises |

A tree is described without recursion by a function `d`, where `d[n]` is the set of the
nodes at or below `n`: it is `n` with the sets of its two children, all keys on the
left are less than that of `n` and all on the right greater (`Ordered`).  The parent
pointers agree with the children (`Linked`), and all members are below the root
(`Rooted`).  That nothing is below itself follows from the order of the keys.
`TreeInv` says that such a `d` exists, that every height is right and every balance
between -1 and 1, and that `size` counts the members.

Inside an operation the tree is `Near` it: heights and balance are right everywhere
but at one node, whose height is that from before one of its sides changed by one
(`Off`).

* `RotationKeeps`: a rotation of a tree is a tree of the same members; `d` changes at
  two nodes.  `LiftSettles` has the four rotations of the loop, with the children of
  balance 0 that only a removal meets, and `RaiseSettles` one whole turn of it: it
  moves the place that may be wrong to the parent.
* `RebalanceMends`: the walk ends within `MaxWalk` turns.  Turns are counted by the
  nodes above the place that has been reached, twice, because a node that was rotated
  down is followed by the one that took its place; when no node is left above, the tree
  is balanced.
* `FindPlace`: the search for a key ends at its node, or at the null pointer where a new
  node keeps the order (`LeafNear`).  `SpliceNear` is the removal, `OutermostIs` says
  that the last node on one side is the smallest or the greatest.
* `TakeNode` at the root is the exception: `avltree_destroy()` does it with two children
  too.  It takes no notice of parent pointers, so that a tree that is only ordered and
  rooted (`Searched`) is enough for it to reach every node (`RootTaken`, `DrainedAll`).
* Postorder gives each node a place: the nodes below it, and those left of the way to it
  (`UpTo`, `LeftOf`), come before.  The next node has the next place (`NextFollows`), so
  that after i steps i nodes have been met, each once (`VisitsAll`).

### The lists

For any finite sets of heads and links, and the calls that are modelled (merging into
empty lists, clearing without a function):

| theorem | says |
|---|---|
| `RingsStayClosed` | `Spec => []RingsClosed`: `prev` undoes `next` around every ring, no link is in two, sizes are numbers of links |
| `RingsImplementDeques` | `Spec => ImplementsDeques`: every call is a step of the sequences of `Deques` |

`RingsInv` says of the pointers what they look like when the sequence of each head is
given: `next` and `prev` lead along head and links and back, and no two heads share a
link.  `Around` follows the pointers with a recursive function; that it finds the
sequence, whole and no more, is `AroundRing`.  The other lemmas say what the four
assignments of an insertion, the two of a removal and the four of a merge make of the
rings; a link that is taken keeps its old pointers, so they are about the nodes of
the rings only.

### The sequential parts

| theorem | for every | says |
|---|---|---|
| `FirstTextOnce` | number of processes, length of the path | `DiskSpec => []DefaultsOnce` |
| `NoValueOutlivesText` | set of lines, of keys, of handles | `ConfigSpec => []ValuesAlive` |
| `LinesAreRead` | set of lines, of any characters and lengths, number of them, set of keys, of handles | `ConfigSpec => []ParserAgrees` |
| `LinesKept` | number of lines | `LogSpec => []LogKept` |
| `ClockImplementsStopwatch` | number of ticks of a second, of a unit that divides it, bound of the time | `ClockSpec => ClockAgrees` |
| `TextsGoToTheirOptions` | set of options, of flags, of tokens that each hold at least one flag, length of the line | `OptionsSpec => []OptionsAgree` |

Their specifications are the part's own next-state relation, from the state in which
there is no object: that of `MCParts` without the other parts.

* `FirstTextOnce`.  A process that has climbed the path has every level behind it
  (`Climbed`), so that a path that is not blocked leads to a file (`InPlace`); a
  descriptor of `O_CREAT` with `O_EXCL` is only handed out while nothing was written
  or lost (`OneWriter`).
* `NoValueOutlivesText`.  Values appear only while the parser runs, and the parser
  runs only on a text that is held (`TextHeld`).
* `LinesAreRead`.  `f[k]` are the characters of the first k lines and `e[k]` what they
  assign (`Laid`).  As long as the lines are good the parser is inside of one of them,
  has read what those before it assign and nothing else, and has either skipped blanks
  only, or holds the key that ends at the first sign of the line and has skipped blanks
  since (`InLine`).  A line that is good by itself has its first end of a line at its
  end, and, if it is an assignment, a sign and a value before that, so that what the
  parser looks for in the text it finds in the line (`FirstFound`, `LineEndFound`,
  `SignFound`), and the same strings (`StringMoves`): each step stays in the line or
  ends before the next one (`SkipReads`, `SkipLineReads`, `KeyReads`, `ValueReads`).
  Once it is through the good lines it may read what it likes, and only adds to them
  (`Through`, `ThroughStays`).  Each value with a handle is a call more (`CallMore`).
  The texts are sequences of characters, and NULL is not one (`ConfigAssumption`).
* `LinesKept`.  As long as the log is open, file and buffer make up what was written
  and no line of `log_printf()` is in the buffer (`Whole`); what the process leaves
  behind (`Left`) follows, and is kept while nobody writes.
* `ClockImplementsStopwatch`.  Fractions stay below a second (`ClockInv`), hence
  `Diff` is the difference of the ticks, whether or not it borrows (`DiffTicks`), and
  the two counts of `clock_elapsed_*()` are the ticks and the whole units among them
  (`ElapsedNumbers`).
* `TextsGoToTheirOptions`.  The parser stands before a token, or inside of one with
  texts only up to `i` (`Standing`).  Every flag behind it has its option passed, with
  texts that follow its token (`FlagsProvided`); each option has one such flag
  (`FlagsOnce`) and none is passed without (`PassedByFlag`); the flags of a token have
  their texts in turn (`InTurn`), and every text behind the parser has been taken
  (`TextsTaken`).  At the end of the line these are `OptionsAgree` (`SoundAgrees`).

About the composition, `Spec` of `MCParts`, for any pointers, ranks and bytes, any
width of an unsigned int, any smallest sizes of the arrays that are powers of two,
any size of a word:

| theorem | says |
|---|---|
| `HeapIsPriorityQueue` | `HeapsAreObjects` implies `Spec => HeapServes`: every call is a step of a priority queue |
| `BufferIsStream` | `BuffersAreObjects` implies `Spec => BufferStreams`: every call is a step of a stream of bytes |
| `SortedVectorsSearch` | `Spec => []VectorSearches`: the binary searches agree with a look at every element |
| `TakeAllTakesMatches` | `Spec => []TakeAllTakes`: `vector_take_all()` takes matches only, the rest keeps its order, and a match stays only right behind one that is taken |
| `FreeListsSound` | `SmallPools` implies `Spec => []FreeListSound`: the free list leads through every chunk that nobody holds, once |
| `CallsStayInside` | `SmallPools` implies `Spec => []StaysInside`: no call leaves its memory but under the circumstances named |

`HeapsAreObjects` and `BuffersAreObjects` say that `None` is not one of the records
that stand for a heap or a buffer: NULL is no object.  `SmallPools` says that the
memory of a pool is less than 2^32 words, so that the number of its chunks fits in
the unsigned int that counts them; beyond, `mempool_init()` cuts the number off, and
chunks are missing from the start.

* Heap.  `HeapInv`: the capacity is a power of two, and the array holds each element
  once, none greater than its parent (`Heaped`); or `heap_clear()` with a function
  has left the size below zero and nothing in it.
  `HeapifyUp` and `HeapifyDown` are one move: the elements along a path from slot to
  slot each go one place on, and the last takes the place of the first.  It loses
  nothing, and where the path ends is what makes the array ordered again.
* Vector.  `VectorInv`: the elements fit, and the capacity is a power of two.  A
  binary search is a walk over pairs of `l` and `r`, whose difference goes down; what
  holds of the pair from which it starts to the end is that the elements before `l`
  are less, and those behind `r` greater.  `vector_take_all()` leaves a match just
  where it has taken the element before (`Stay`, `RowsStay`).  From any place where a
  row starts, the scan leaves the elements that stay, each at the place that their
  number up to it gives (`Leaves`): by induction over the elements that are left
  (`ScanLeaves`).
* Buffer.  `BufferInv`: unless it is `large`, what is used and what is granted fit.
  Doubling the size leads to a power of two that is large enough, or to 2^32, which
  `get_nice_size()` takes for 0, and that only where the size and the request reach
  `TopBit` together (`DoubledFits`).
* Memory pool.  `PoolInv`: there is a way from `next` through every free chunk, once
  (`LeadsThrough`); a held chunk has been linked, and no link of a free one leads
  further than to `init`.  The way is the chunks' own order where nothing has been
  linked, so that linking one more changes nothing on it (`LinkedKeeps`).  An
  allocation takes its first chunk off, a freed chunk is put before it.  A link is
  written past the end only from a last multiple of the chunk size with less than a
  word behind it (`Remainder`).
* The parts together.  A step of one part finds no object of another and leaves no
  fault but its own (`OneAtATime`), and each part goes on only while there is none.

### Induction and recursion

`Induction` proves from the library's theorem on well-founded subsets that a set of
numbers with 0 and with the successor of each of its members holds all of them, and
the same for finite sets.  A property proved by induction is therefore a set
(`{n \in Nat : ...}`) in these proofs.  A recursive function is, by definition, a
chosen function that satisfies its equation; `NumberRecursion` shows that one exists
for equations over numbers, so that a definition such as `Moved` in `HashMap`,
`Around` in `LinkedList` or the walk in `FreeListSound` may be unfolded.
`MeasuredRecursion` shows the same for a function over any set of places whose
recursion goes down by some measure (the paths in a heap, the searches in a vector),
and `TailRecursion` for one that only hands on what it finds (the ways down a tree).

### Only model-checked

* Liveness: fairness and ENABLED are out of the prover's reach.
* The AVL tree once a node with two children was taken: it is damaged then.

Every invariant and every action property of a passing run is a theorem, from the
conditions it names.  What these exclude is not proved, and not all of it is run:
`pool_nested_hang` alone has tasks that add threads, and no run has a pool of 2^32
words.

## 6. Not modelled

* Thread pool: attributes, the failures of `sem_init()`, `pthread_mutex_init()`,
  `eventfd()` and `malloc()` before a thread exists, the getters.  Reuse of the
  closed descriptor's number by another part of the program.
* Hash map: wrap-around of `capacity` and of `100 * size` (more than 42 million
  entries), the iteration macros.
* AVL tree: the setters of the two functions.  With nodes with two children taken,
  only `avl_inner` looks at the tree, since its structure is damaged from there on.
* Lists: merging into a list that has elements and clearing with a function (hazards
  named under Findings), which no theorem covers; `list_at()`, `stack_top()`.
* Heap and vector: a change of `data_compare` from one order to another; failing
  allocations in `*_new()` beyond those of `*_init()`, which end the same way.
* Clock: a clock that `clock_new()` returns although `clock_init()` failed.
* Options: the same flag declared for two options; the messages.
* Configuration: a `read()` that yields less than `fstat()` promised, `'\0'` and EOF
  characters in the text, files above 512 kB except as a failure.  Blanks stand for
  `' '` and `'\t'`; `'\r'`, `'\v'` and `'\f'`, which `isspace()` skips between the
  tokens but which stay inside of a key or a value, are left out.  The sample text at
  `config_test.c:60` asks for keys and values that begin with a letter or a digit; the
  parser accepts others (in `==` the key is empty), and so does the model.
* Log: the header of a line, the copy that `log_print()` makes, a file given to
  `log_set_file()` that was not opened for appending.  Writes and flushes succeed:
  `log.c:104` ignores the result of `fflush()`, so that a line is lost without notice
  when it fails, and `LogKept` says nothing of that case.
* Filesystem: `path_remove()` and the tests of a path's kind: system calls, whose
  effect is the file system's, and which nothing else in the library uses.
* Random, hash, compare, error: no state.

## 7. Plan

1. Thread pool: `threadpool_add_thread()` without bound, to show where weak
   fairness is not enough; a run in which tasks add threads while `map_insert()`
   fails; the queues of `ThreadPool` as instances of `Deques`.
2. Proofs: the thread pool's theorems without `TasksAddNoThread`, for a `map_insert()`
   that does not fail.
