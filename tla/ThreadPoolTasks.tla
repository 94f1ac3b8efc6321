-------------------------- MODULE ThreadPoolTasks --------------------------
(***************************************************************************)
(* The tasks of ThreadPool, for any number of threads and tasks: a task is *)
(* in one place at a time, is not lost, and is executed before it is       *)
(* handed back; the pool implements TaskPool; and no more events are in    *)
(* the eventfd and in the workers' hands than there are tasks to take.     *)
(***************************************************************************)
EXTENDS ThreadPoolProofs, Induction

\* Where no task is in a thread's hand.
Empty == {"none", "wait_in", "lock_in", "take_in", "event", "exit_sem",
          "exit_lock", "exit_take"} \cup Leaving

HandsEmpty ==
    /\ \A w \in Workers : pc[w] \in Empty => job[w] = None
    /\ \A a \in Agents :
           pc[a] \notin {"add_lock", "add_post", "add_insert"} => arg[a] = None

\* The tasks in the queues and in the threads' hands are different ones, and the
\* pool is responsible for all of them.
Placed ==
    /\ IsInjective(task_queue_in) /\ IsInjective(task_queue_out)
    /\ Range(task_queue_in) \cap Range(task_queue_out) = {}
    /\ Range(task_queue_in) \cup Range(task_queue_out) \subseteq given
    /\ \A w \in Workers : job[w] # None =>
           job[w] \in given \ (Range(task_queue_in) \cup Range(task_queue_out))
    /\ \A a \in Agents : arg[a] # None =>
           arg[a] \in given \ (Range(task_queue_in) \cup Range(task_queue_out))
    /\ \A v, w \in Workers : job[w] # None /\ job[v] = job[w] => v = w
    /\ \A a, b \in Agents : arg[a] # None /\ arg[a] = arg[b] => a = b
    /\ \A w \in Workers, a \in Agents : job[w] # None => job[w] # arg[a]

\* What a worker is about to complete, and what is completed, was executed.
Served ==
    /\ \A w \in Workers : pc[w] \in {"lock_out", "post_out", "insert_out"} =>
           job[w] \in executed \cap Tasks
    /\ Range(task_queue_out) \subseteq executed \cap Tasks

\* While the pool is alive, nothing fails, and the semaphores have room, no thread
\* is cancelled and every task the pool is responsible for is in one of the places.
Somewhere(t) ==
    \/ t \in Range(task_queue_in) \cup Range(task_queue_out)
    \/ \E w \in Workers : job[w] = t
    \/ \E a \in Agents : arg[a] = t

RoomForAll == Faults = {} /\ SemMax >= Cardinality(AllTasks)

Kept ==
    RoomForAll /\ pool \in {"init", "live"} =>
        canceled = {} /\ \A t \in given : Somewhere(t)

\* The inductive invariant of the tasks.
TInv == LInv /\ HandsEmpty /\ Placed /\ Served /\ Kept

-----------------------------------------------------------------------------
\* Appending a new element to a queue.
LEMMA AppendRange ==
  ASSUME NEW S, NEW s \in Seq(S), NEW t \in S
  PROVE  /\ Range(Append(s, t)) = Range(s) \cup {t}
         /\ IsInjective(s) /\ t \notin Range(s) => IsInjective(Append(s, t))
<1> DEFINE r == Append(s, t)
<1>1. /\ DOMAIN s = 1 .. Len(s) /\ DOMAIN r = 1 .. Len(s) + 1
      /\ Len(s) \in Nat
      /\ \A i \in 1 .. Len(s) : r[i] = s[i]
      /\ r[Len(s) + 1] = t
  OBVIOUS
<1> HIDE DEF r
<1>2. Range(r) = Range(s) \cup {t}
  BY <1>1 DEF Range
<1>3. IsInjective(s) /\ t \notin Range(s) => IsInjective(r)
  BY <1>1 DEF Range, IsInjective
<1> QED
  BY <1>2, <1>3 DEF r

\* Taking the first element of a queue of different elements.
LEMMA TailRange ==
  ASSUME NEW S, NEW s \in Seq(S), s # <<>>
  PROVE  /\ Head(s) \in Range(s)
         /\ Range(Tail(s)) \subseteq Range(s)
         /\ IsInjective(s) => /\ IsInjective(Tail(s))
                              /\ Range(Tail(s)) = Range(s) \ {Head(s)}
<1> DEFINE r == Tail(s)
<1>1. /\ DOMAIN s = 1 .. Len(s) /\ DOMAIN r = 1 .. Len(s) - 1
      /\ Len(s) \in Nat /\ Len(s) >= 1
      /\ \A i \in 1 .. Len(s) - 1 : r[i] = s[i + 1]
      /\ Head(s) = s[1]
  OBVIOUS
<1> HIDE DEF r
<1>2. Head(s) \in Range(s)
  BY <1>1 DEF Range
<1>3. \A x \in Range(r) : \E i \in 2 .. Len(s) : x = s[i]
  BY <1>1 DEF Range
<1>4. \A i \in 2 .. Len(s) : i - 1 \in DOMAIN r /\ r[i - 1] = s[i]
  BY <1>1
<1>5. Range(r) \subseteq Range(s)
  BY <1>1, <1>3 DEF Range
<1>6. ASSUME IsInjective(s) PROVE IsInjective(r) /\ Range(r) = Range(s) \ {Head(s)}
  <2>1. IsInjective(r)
    <3> SUFFICES ASSUME NEW i \in DOMAIN r, NEW j \in DOMAIN r, r[i] = r[j]
                 PROVE  i = j
      BY DEF IsInjective
    <3>1. i + 1 \in DOMAIN s /\ j + 1 \in DOMAIN s /\ s[i + 1] = s[j + 1]
      BY <1>1
    <3> QED
      BY <1>1, <1>6, <3>1 DEF IsInjective
  <2>2. \A x \in Range(r) : x \in Range(s) \ {Head(s)}
    BY <1>1, <1>3, <1>6 DEF IsInjective, Range
  <2>3. \A x \in Range(s) \ {Head(s)} : x \in Range(r)
    <3> SUFFICES ASSUME NEW x \in Range(s), x # Head(s) PROVE x \in Range(r)
      OBVIOUS
    <3>1. PICK i \in 1 .. Len(s) : x = s[i]
      BY <1>1 DEF Range
    <3>2. i \in 2 .. Len(s)
      BY <1>1, <3>1
    <3> QED
      BY <1>4, <3>1, <3>2 DEF Range
  <2> QED
    BY <2>1, <2>2, <2>3
<1> QED
  BY <1>2, <1>5, <1>6 DEF r

\* The empty queue.
LEMMA EmptyRange == Range(<<>>) = {} /\ IsInjective(<<>>)
BY DEF Range, IsInjective

\* A thread keeps a task in its hand only from taking it to passing it on.
LEMMA HandsStep == TypeInv /\ HandsEmpty /\ [Next]_vars => HandsEmpty'
<1> SUFFICES ASSUME TypeInv /\ HandsEmpty, [Next]_vars PROVE HandsEmpty'
  OBVIOUS
<1> USE ThreadsAssumption DEF TypeInv, TypeOK, PcData, Agents
<1> USE DEF ClientPcs, WorkerPcs, Leaving, At, Goto, Acquire, Release
<1> USE DEF handVars, queueVars, semVars, threadVars, eventVars, taskVars
<1> USE DEF HandsEmpty, Empty
<1>1. CASE UNCHANGED vars
  BY <1>1 DEF vars
<1>2. ASSUME NEW a \in Agents, AddTask(a) PROVE HandsEmpty'
  BY <1>2, OpsAssumption DEF AddTask, MayCall
<1>3. ASSUME NEW a \in Agents, RemoveThread(a) PROVE HandsEmpty'
  BY <1>3, OpsAssumption DEF RemoveThread, MayCall
<1>4. ASSUME NEW a \in Agents, AddThread(a) PROVE HandsEmpty'
  <2>1. PICK w \in Workers : Create(a, w)
    BY <1>4 DEF AddThread, Create
  <2>2. a # w /\ arg[a] = None
    BY <1>4, <2>1, OpsAssumption DEF AddThread, MayCall, Create
  <2>3. /\ pc' = [pc EXCEPT ![a] = "reg_lock", ![w] = "wait_in"]
        /\ pc[w] = "none" /\ UNCHANGED <<job, arg>>
    BY ONLY <2>1 DEF Create, At
  <2> QED
    BY <2>2, <2>3, ZenonT(60)
<1>5. ASSUME NEW a \in Agents, TasksQueued(a) PROVE HandsEmpty'
  BY <1>5, OpsAssumption DEF TasksQueued, MayCall
<1>6. ASSUME NEW a \in Agents, EventRead(a) PROVE HandsEmpty'
  BY <1>6, OpsAssumption DEF EventRead, MayCall
<1>7. ASSUME NEW a \in Agents, Take(a) PROVE HandsEmpty'
  BY <1>7, OpsAssumption DEF Take, MayCall
<1>8. ASSUME NEW a \in Agents, DirectTake(a) PROVE HandsEmpty'
  BY <1>8, OpsAssumption DEF DirectTake, MayCall
<1>9. ASSUME NEW a \in Agents, Destroy(a) PROVE HandsEmpty'
  BY <1>9, OpsAssumption DEF Destroy, MayCall
<1>10. ASSUME NEW a \in Agents, AddLock(a) PROVE HandsEmpty'
  BY <1>10 DEF AddLock, Lock
<1>11. ASSUME NEW a \in Agents, AddPost(a) PROVE HandsEmpty'
  BY <1>11 DEF AddPost
<1>12. ASSUME NEW a \in Agents, AddPostFails(a) PROVE HandsEmpty'
  BY <1>12 DEF AddPostFails, Back
<1>13. ASSUME NEW a \in Agents, AddInsert(a) PROVE HandsEmpty'
  BY <1>13 DEF AddInsert, Back
<1>14. ASSUME NEW a \in Agents, RegLock(a) PROVE HandsEmpty'
  BY <1>14 DEF RegLock, Lock
<1>15. ASSUME NEW a \in Agents, RegInsert(a) PROVE HandsEmpty'
  BY <1>15 DEF RegInsert, Back
<1>16. ASSUME NEW a \in Agents, RegInsertFails(a) PROVE HandsEmpty'
  BY <1>16 DEF RegInsertFails
<1>17. ASSUME NEW a \in Agents, RegCancel(a) PROVE HandsEmpty'
  BY <1>17 DEF RegCancel, Cancel
<1>18. ASSUME NEW a \in Agents, RegJoin(a) PROVE HandsEmpty'
  <2>1. PICK l \in {"clear", "run", "init", "idle"} : pc' = [pc EXCEPT ![a] = l]
    BY ONLY RegJoin(a) DEF RegJoin, Back, Goto
  <2>2. pc[a] = "reg_join" /\ UNCHANGED <<job, arg>>
    BY ONLY RegJoin(a) DEF RegJoin, At
  <2> QED
    BY <2>1, <2>2
<1>19. ASSUME NEW a \in Agents, InitThread(a) PROVE HandsEmpty'
  BY <1>19 DEF InitThread, Create
<1>20. ASSUME NEW a \in Agents, InitThreadFails(a) PROVE HandsEmpty'
  BY <1>20 DEF InitThreadFails
<1>21. ASSUME NEW a \in Agents, InitDone(a) PROVE HandsEmpty'
  BY <1>21 DEF InitDone
<1>22. ASSUME NEW a \in Agents, TakeWait(a) PROVE HandsEmpty'
  BY <1>22 DEF TakeWait
<1>23. ASSUME NEW a \in Agents, TakeLock(a) PROVE HandsEmpty'
  BY <1>23 DEF TakeLock, Lock
<1>24. ASSUME NEW a \in Agents, TakeOut(a) PROVE HandsEmpty'
  BY <1>24 DEF TakeOut, Back, Race
<1>25. ASSUME NEW a \in Agents, TqLock(a) PROVE HandsEmpty'
  BY <1>25 DEF TqLock, Lock
<1>26. ASSUME NEW a \in Agents, TqRead(a) PROVE HandsEmpty'
  BY <1>26 DEF TqRead, Back
<1>27. ASSUME NEW a \in Agents, DestroySem(a) PROVE HandsEmpty'
  BY <1>27 DEF DestroySem, WaitExit
<1>28. ASSUME NEW a \in Agents, DestroyLock(a) PROVE HandsEmpty'
  BY <1>28 DEF DestroyLock, Lock
<1>29. ASSUME NEW a \in Agents, Clear(a) PROVE HandsEmpty'
  BY <1>29 DEF Clear, Cancel
<1>30. ASSUME NEW a \in Agents, ClearJoin(a) PROVE HandsEmpty'
  BY <1>30 DEF ClearJoin, Join
<1>31. ASSUME NEW a \in Agents, ClearDone(a) PROVE HandsEmpty'
  BY <1>31 DEF ClearDone
<1>32. ASSUME NEW a \in Agents, AbortDone(a) PROVE HandsEmpty'
  BY <1>32 DEF AbortDone
<1>33. ASSUME NEW a \in Agents, DestroyPost(a) PROVE HandsEmpty'
  BY <1>33 DEF DestroyPost, PostExit
<1>34. ASSUME NEW a \in Agents, DestroyFree(a) PROVE HandsEmpty'
  BY <1>34 DEF DestroyFree
<1>35. ASSUME NEW w \in Workers, WaitIn(w) PROVE HandsEmpty'
  BY <1>35 DEF WaitIn
<1>36. ASSUME NEW w \in Workers, LockIn(w) PROVE HandsEmpty'
  BY <1>36 DEF LockIn, Lock
<1>37. ASSUME NEW w \in Workers, TakeIn(w) PROVE HandsEmpty'
  BY <1>37 DEF TakeIn
<1>38. ASSUME NEW w \in Workers, RunTask(w) PROVE HandsEmpty'
  BY <1>38 DEF RunTask
<1>39. ASSUME NEW w \in Workers, LockOut(w) PROVE HandsEmpty'
  BY <1>39 DEF LockOut, Lock
<1>40. ASSUME NEW w \in Workers, PostOut(w) PROVE HandsEmpty'
  BY <1>40 DEF PostOut
<1>41. ASSUME NEW w \in Workers, PostOutFails(w) PROVE HandsEmpty'
  BY <1>41 DEF PostOutFails
<1>42. ASSUME NEW w \in Workers, InsertOut(w) PROVE HandsEmpty'
  BY <1>42 DEF InsertOut, Race
<1>43. ASSUME NEW w \in Workers, Event(w) PROVE HandsEmpty'
  BY <1>43 DEF Event
<1>44. ASSUME NEW w \in Workers, Die(w) PROVE HandsEmpty'
  BY <1>44 DEF Die
<1>45. ASSUME NEW w \in Workers, RunExit(w) PROVE HandsEmpty'
  BY <1>45, SMTT(60) DEF RunExit
<1>46. ASSUME NEW w \in Workers, ExitSem(w) PROVE HandsEmpty'
  BY <1>46 DEF ExitSem, WaitExit
<1>47. ASSUME NEW w \in Workers, ExitLock(w) PROVE HandsEmpty'
  BY <1>47 DEF ExitLock, Lock
<1>48. ASSUME NEW w \in Workers, ExitTake(w) PROVE HandsEmpty'
  BY <1>48 DEF ExitTake
<1>49. ASSUME NEW w \in Workers, ExitPost(w) PROVE HandsEmpty'
  <2>1. CASE PostExit(w, "exit_post_own", "leave_own")
    BY <2>1 DEF PostExit
  <2>2. CASE PostExit(w, "exit_post_lost", "leave_lost")
    BY <2>2 DEF PostExit
  <2> QED
    BY <1>49, <2>1, <2>2 DEF ExitPost
<1>50. ASSUME NEW w \in Workers, Leave(w) PROVE HandsEmpty'
  BY <1>50 DEF Leave
<1> QED
BY ONLY [Next]_vars, <1>1, <1>2, <1>3, <1>4, <1>5, <1>6, <1>7, <1>8, <1>9,
     <1>10, <1>11, <1>12, <1>13, <1>14, <1>15, <1>16, <1>17, <1>18, <1>19,
     <1>20, <1>21, <1>22, <1>23, <1>24, <1>25, <1>26, <1>27, <1>28, <1>29,
     <1>30, <1>31, <1>32, <1>33, <1>34, <1>35, <1>36, <1>37, <1>38, <1>39,
     <1>40, <1>41, <1>42, <1>43, <1>44, <1>45, <1>46, <1>47, <1>48, <1>49,
     <1>50
     DEF Next, Call, Continue, Work

\* A step that leaves the queues and the hands alone.
LEMMA PlacedFrame ==
  ASSUME Placed, UNCHANGED <<job, arg, task_queue_in, task_queue_out, given>>
  PROVE  Placed'
BY DEF Placed

\* A step that leaves the queues alone moves no task into a hand but new ones, and
\* gives up no task but those of its own hand.
LEMMA PlacedHands ==
  ASSUME Placed, UNCHANGED <<task_queue_in, task_queue_out>>,
         \A w \in Workers : job'[w] \in {job[w], None},
         \A a \in Agents : arg'[a] \in {arg[a], None} \/ arg'[a] \in given' \ given,
         \A a, b \in Agents : arg'[a] = arg'[b] /\ arg'[a] \in given' \ given => a = b,
         \A t \in given \ given' :
             /\ t \notin Range(task_queue_in) \cup Range(task_queue_out)
             /\ \A w \in Workers : job'[w] # t
             /\ \A a \in Agents : arg'[a] # t
  PROVE  Placed'
<1> USE DEF Placed
<1>1. /\ Range(task_queue_in)' = Range(task_queue_in)
      /\ Range(task_queue_out)' = Range(task_queue_out)
      /\ IsInjective(task_queue_in)' /\ IsInjective(task_queue_out)'
  OBVIOUS
<1>2. Range(task_queue_in) \cup Range(task_queue_out) \subseteq given'
  OBVIOUS
<1>3. \A w \in Workers : job'[w] # None =>
        job'[w] \in given' \ (Range(task_queue_in) \cup Range(task_queue_out))
  OBVIOUS
<1>4. \A a \in Agents : arg'[a] # None =>
        arg'[a] \in given' \ (Range(task_queue_in) \cup Range(task_queue_out))
  OBVIOUS
<1>5. \A v, w \in Workers : job'[w] # None /\ job'[v] = job'[w] => v = w
  OBVIOUS
<1>6. \A a, b \in Agents : arg'[a] # None /\ arg'[a] = arg'[b] => a = b
  OBVIOUS
<1>7. \A w \in Workers, a \in Agents : job'[w] # None => job'[w] # arg'[a]
  OBVIOUS
<1> QED
  BY <1>1, <1>2, <1>3, <1>4, <1>5, <1>6, <1>7

\* A task goes from the caller's hand to task_queue_in, to a worker's hand, to
\* task_queue_out and back to the caller, and is in one of these places at a time.
LEMMA PlacedStep == TypeInv /\ LocksHeld /\ UnlocksOwnMutex /\ Placed /\ [Next]_vars => Placed'
<1> SUFFICES ASSUME TypeInv /\ LocksHeld /\ UnlocksOwnMutex /\ Placed, [Next]_vars PROVE Placed'
  OBVIOUS
<1> USE ThreadsAssumption, PlacedFrame DEF TypeInv, TypeOK, PcData, Agents
<1> USE DEF At, handVars, queueVars, semVars, threadVars, eventVars, taskVars
<1>1. CASE UNCHANGED vars
  BY <1>1 DEF vars
<1>2. ASSUME NEW a \in Agents, AddTask(a) PROVE Placed'
  <2>1. PICK t \in AllTasks \ given :
          given' = given \cup {t} /\ arg' = [arg EXCEPT ![a] = t]
    BY <1>2 DEF AddTask, AllTasks
  <2>2. UNCHANGED <<job, task_queue_in, task_queue_out>>
    BY <1>2 DEF AddTask
  <2>3. t # None /\ given' \ given = {t}
    BY <2>1, TasksAssumption
  <2>4. arg'[a] = t /\ \A b \in Agents \ {a} : arg'[b] = arg[b]
    BY ONLY <2>1, TypeOK, a \in Agents DEF TypeOK
  <2>5. \A b \in Agents : arg[b] # t
    BY ONLY Placed, <2>1, <2>3 DEF Placed
  <2> QED
    BY ONLY Placed, <2>1, <2>2, <2>3, <2>4, <2>5, PlacedHands, a \in Agents
<1>3. ASSUME NEW a \in Agents, RemoveThread(a) PROVE Placed'
  <2>1. PICK t \in AllTasks \ given :
          given' = given \cup {t} /\ arg' = [arg EXCEPT ![a] = t]
    BY <1>3 DEF RemoveThread, AllTasks
  <2>2. UNCHANGED <<job, task_queue_in, task_queue_out>>
    BY <1>3 DEF RemoveThread
  <2>3. t # None /\ given' \ given = {t}
    BY <2>1, TasksAssumption
  <2>4. arg'[a] = t /\ \A b \in Agents \ {a} : arg'[b] = arg[b]
    BY ONLY <2>1, TypeOK, a \in Agents DEF TypeOK
  <2>5. \A b \in Agents : arg[b] # t
    BY ONLY Placed, <2>1, <2>3 DEF Placed
  <2> QED
    BY ONLY Placed, <2>1, <2>2, <2>3, <2>4, <2>5, PlacedHands, a \in Agents
<1>4. ASSUME NEW a \in Agents, AddThread(a) PROVE Placed'
  BY <1>4, OpsAssumption DEF AddThread, MayCall, Create
<1>5. ASSUME NEW a \in Agents, TasksQueued(a) PROVE Placed'
  BY <1>5, OpsAssumption DEF TasksQueued, MayCall
<1>6. ASSUME NEW a \in Agents, EventRead(a) PROVE Placed'
  BY <1>6, OpsAssumption DEF EventRead, MayCall
<1>7. ASSUME NEW a \in Agents, Take(a) PROVE Placed'
  BY <1>7, OpsAssumption DEF Take, MayCall
<1>8. ASSUME NEW a \in Agents, DirectTake(a) PROVE Placed'
  BY <1>8, OpsAssumption DEF DirectTake, MayCall
<1>9. ASSUME NEW a \in Agents, Destroy(a) PROVE Placed'
  BY <1>9, OpsAssumption DEF Destroy, MayCall
<1>10. ASSUME NEW a \in Agents, AddLock(a) PROVE Placed'
  BY <1>10 DEF AddLock, Lock
<1>11. ASSUME NEW a \in Agents, AddPost(a) PROVE Placed'
  BY <1>11 DEF AddPost
<1>12. ASSUME NEW a \in Agents, AddPostFails(a) PROVE Placed'
  <2>1. /\ arg[a] \in AllTasks /\ UNCHANGED <<job, task_queue_in, task_queue_out>>
        /\ given' = given \ {arg[a]} /\ arg' = [arg EXCEPT ![a] = None]
    BY <1>12 DEF AddPostFails
  <2>2. arg[a] # None
    BY <2>1, TasksAssumption
  <2> QED
    BY ONLY Placed, TypeOK, <2>1, <2>2, PlacedHands, a \in Agents DEF TypeOK, Placed
<1>13. ASSUME NEW a \in Agents, AddInsert(a) PROVE Placed'
  <2>1. /\ arg[a] \in AllTasks /\ UNCHANGED <<job, task_queue_out, given>>
        /\ task_queue_in' = Append(task_queue_in, arg[a])
        /\ arg' = [arg EXCEPT ![a] = None]
    BY <1>13 DEF AddInsert
  <2>2. arg[a] # None
    BY <2>1, TasksAssumption
  <2>3. /\ Range(task_queue_in)' = Range(task_queue_in) \cup {arg[a]}
        /\ IsInjective(task_queue_in)'
    BY ONLY Placed, TypeOK, <2>1, <2>2, AppendRange, a \in Agents DEF Placed, TypeOK
  <2>4. \A b \in Agents \ {a} : arg'[b] = arg[b]
    BY ONLY <2>1, TypeOK DEF TypeOK
  <2>5. arg'[a] = None
    BY ONLY <2>1, TypeOK, a \in Agents DEF TypeOK
  <2> QED
    BY ONLY Placed, <2>1, <2>2, <2>3, <2>4, <2>5, a \in Agents DEF Placed
<1>14. ASSUME NEW a \in Agents, RegLock(a) PROVE Placed'
  BY <1>14 DEF RegLock, Lock
<1>15. ASSUME NEW a \in Agents, RegInsert(a) PROVE Placed'
  BY <1>15 DEF RegInsert, Back
<1>16. ASSUME NEW a \in Agents, RegInsertFails(a) PROVE Placed'
  BY <1>16 DEF RegInsertFails
<1>17. ASSUME NEW a \in Agents, RegCancel(a) PROVE Placed'
  BY <1>17 DEF RegCancel, Cancel
<1>18. ASSUME NEW a \in Agents, RegJoin(a) PROVE Placed'
  BY <1>18 DEF RegJoin
<1>19. ASSUME NEW a \in Agents, InitThread(a) PROVE Placed'
  BY <1>19 DEF InitThread, Create
<1>20. ASSUME NEW a \in Agents, InitThreadFails(a) PROVE Placed'
  BY <1>20 DEF InitThreadFails
<1>21. ASSUME NEW a \in Agents, InitDone(a) PROVE Placed'
  <2>1. /\ task_queue_in' = <<>> /\ task_queue_out' = <<>>
        /\ UNCHANGED <<job, arg, given>>
    BY <1>21 DEF InitDone
  <2>2. /\ Range(task_queue_in)' = {} /\ IsInjective(task_queue_in)'
        /\ Range(task_queue_out)' = {} /\ IsInjective(task_queue_out)'
    BY ONLY <2>1, EmptyRange
  <2> QED
    BY ONLY Placed, <2>1, <2>2 DEF Placed
<1>22. ASSUME NEW a \in Agents, TakeWait(a) PROVE Placed'
  BY <1>22 DEF TakeWait
<1>23. ASSUME NEW a \in Agents, TakeLock(a) PROVE Placed'
  BY <1>23 DEF TakeLock, Lock
<1>24. ASSUME NEW a \in Agents, TakeOut(a) PROVE Placed'
  <2>1. ~Race(a)
    BY ONLY ThreadsAssumption, TypeOK, LocksHeld, UnlocksOwnMutex, TakeOut(a), a \in Agents
       DEF TypeOK, LocksHeld, OutSection, Race, At, Agents, TakeOut
  <2>2. /\ UNCHANGED <<job, arg, task_queue_in>> /\ task_queue_out # <<>>
        /\ task_queue_out' = Tail(task_queue_out)
        /\ given' = given \ {Head(task_queue_out)}
    BY <1>24, <2>1 DEF TakeOut
  <2>3. /\ Head(task_queue_out) \in Range(task_queue_out)
        /\ Range(task_queue_out)' = Range(task_queue_out) \ {Head(task_queue_out)}
        /\ IsInjective(task_queue_out)'
    BY ONLY Placed, TypeOK, <2>2, TailRange DEF Placed, TypeOK
  <2> QED
    BY ONLY Placed, <2>2, <2>3 DEF Placed
<1>25. ASSUME NEW a \in Agents, TqLock(a) PROVE Placed'
  BY <1>25 DEF TqLock, Lock
<1>26. ASSUME NEW a \in Agents, TqRead(a) PROVE Placed'
  BY <1>26 DEF TqRead, Back
<1>27. ASSUME NEW a \in Agents, DestroySem(a) PROVE Placed'
  BY <1>27 DEF DestroySem, WaitExit
<1>28. ASSUME NEW a \in Agents, DestroyLock(a) PROVE Placed'
  BY <1>28 DEF DestroyLock, Lock
<1>29. ASSUME NEW a \in Agents, Clear(a) PROVE Placed'
  BY <1>29 DEF Clear, Cancel
<1>30. ASSUME NEW a \in Agents, ClearJoin(a) PROVE Placed'
  BY <1>30 DEF ClearJoin, Join
<1>31. ASSUME NEW a \in Agents, ClearDone(a) PROVE Placed'
  BY <1>31 DEF ClearDone
<1>32. ASSUME NEW a \in Agents, AbortDone(a) PROVE Placed'
  BY <1>32 DEF AbortDone
<1>33. ASSUME NEW a \in Agents, DestroyPost(a) PROVE Placed'
  BY <1>33 DEF DestroyPost, PostExit
<1>34. ASSUME NEW a \in Agents, DestroyFree(a) PROVE Placed'
  <2>1. /\ task_queue_in' = <<>> /\ task_queue_out' = <<>>
        /\ UNCHANGED <<job, arg, given>>
    BY <1>34 DEF DestroyFree
  <2>2. /\ Range(task_queue_in)' = {} /\ IsInjective(task_queue_in)'
        /\ Range(task_queue_out)' = {} /\ IsInjective(task_queue_out)'
    BY ONLY <2>1, EmptyRange
  <2> QED
    BY ONLY Placed, <2>1, <2>2 DEF Placed
<1>35. ASSUME NEW w \in Workers, WaitIn(w) PROVE Placed'
  BY <1>35 DEF WaitIn
<1>36. ASSUME NEW w \in Workers, LockIn(w) PROVE Placed'
  BY <1>36 DEF LockIn, Lock
<1>37. ASSUME NEW w \in Workers, TakeIn(w) PROVE Placed'
  <2>1. /\ UNCHANGED <<arg, task_queue_out, given>> /\ task_queue_in # <<>>
        /\ task_queue_in' = Tail(task_queue_in)
        /\ job' = [job EXCEPT ![w] = Head(task_queue_in)]
    BY <1>37 DEF TakeIn
  <2>2. /\ Head(task_queue_in) \in Range(task_queue_in)
        /\ Range(task_queue_in)' = Range(task_queue_in) \ {Head(task_queue_in)}
        /\ IsInjective(task_queue_in)'
    BY ONLY Placed, TypeOK, <2>1, TailRange DEF Placed, TypeOK
  <2>3. \A v \in Workers \ {w} : job'[v] = job[v]
    BY ONLY <2>1, TypeOK DEF TypeOK
  <2>4. job'[w] = Head(task_queue_in)
    BY ONLY <2>1, TypeOK, w \in Workers DEF TypeOK
  <2> QED
    BY ONLY Placed, <2>1, <2>2, <2>3, <2>4, w \in Workers DEF Placed
<1>38. ASSUME NEW w \in Workers, RunTask(w) PROVE Placed'
  BY <1>38 DEF RunTask
<1>39. ASSUME NEW w \in Workers, LockOut(w) PROVE Placed'
  BY <1>39 DEF LockOut, Lock
<1>40. ASSUME NEW w \in Workers, PostOut(w) PROVE Placed'
  BY <1>40 DEF PostOut
<1>41. ASSUME NEW w \in Workers, PostOutFails(w) PROVE Placed'
  <2>1. /\ job' = [job EXCEPT ![w] = None]
        /\ UNCHANGED <<arg, given, task_queue_in, task_queue_out>>
    BY <1>41 DEF PostOutFails
  <2> QED
    BY ONLY Placed, TypeOK, <2>1, PlacedHands DEF TypeOK
<1>42. ASSUME NEW w \in Workers, InsertOut(w) PROVE Placed'
  <2>1. ~Race(w)
    BY ONLY ThreadsAssumption, TypeOK, LocksHeld, UnlocksOwnMutex, InsertOut(w), w \in Agents
       DEF TypeOK, LocksHeld, OutSection, Race, At, Agents, InsertOut
  <2>2. /\ job[w] \in AllTasks /\ UNCHANGED <<arg, task_queue_in, given>>
        /\ task_queue_out' = Append(task_queue_out, job[w])
        /\ job' = [job EXCEPT ![w] = None]
    BY <1>42, <2>1 DEF InsertOut
  <2>3. job[w] # None
    BY <2>2, TasksAssumption
  <2>4. /\ Range(task_queue_out)' = Range(task_queue_out) \cup {job[w]}
        /\ IsInjective(task_queue_out)'
    BY ONLY Placed, TypeOK, <2>2, <2>3, AppendRange, w \in Workers DEF Placed, TypeOK
  <2>5. \A v \in Workers \ {w} : job'[v] = job[v]
    BY ONLY <2>2, TypeOK DEF TypeOK
  <2>6. job'[w] = None
    BY ONLY <2>2, TypeOK, w \in Workers DEF TypeOK
  <2> QED
    BY ONLY Placed, <2>2, <2>3, <2>4, <2>5, <2>6, w \in Workers DEF Placed
<1>43. ASSUME NEW w \in Workers, Event(w) PROVE Placed'
  BY <1>43 DEF Event
<1>44. ASSUME NEW w \in Workers, Die(w) PROVE Placed'
  <2>1. /\ job' = [job EXCEPT ![w] = None]
        /\ UNCHANGED <<arg, given, task_queue_in, task_queue_out>>
    BY <1>44 DEF Die
  <2> QED
    BY ONLY Placed, TypeOK, <2>1, PlacedHands DEF TypeOK
<1>45. ASSUME NEW w \in Workers, RunExit(w) PROVE Placed'
  <2>1. /\ job[w] \in AllTasks /\ UNCHANGED <<arg, task_queue_in, task_queue_out>>
        /\ given' = given \ {job[w]} /\ job' = [job EXCEPT ![w] = None]
    BY <1>45 DEF RunExit, AllTasks
  <2>2. job[w] # None
    BY <2>1, TasksAssumption
  <2> QED
    BY ONLY Placed, TypeOK, <2>1, <2>2, PlacedHands DEF TypeOK, Placed
<1>46. ASSUME NEW w \in Workers, ExitSem(w) PROVE Placed'
  BY <1>46 DEF ExitSem, WaitExit
<1>47. ASSUME NEW w \in Workers, ExitLock(w) PROVE Placed'
  BY <1>47 DEF ExitLock, Lock
<1>48. ASSUME NEW w \in Workers, ExitTake(w) PROVE Placed'
  BY <1>48 DEF ExitTake
<1>49. ASSUME NEW w \in Workers, ExitPost(w) PROVE Placed'
  BY <1>49 DEF ExitPost, PostExit
<1>50. ASSUME NEW w \in Workers, Leave(w) PROVE Placed'
  BY <1>50 DEF Leave
<1> QED
BY ONLY [Next]_vars, <1>1, <1>2, <1>3, <1>4, <1>5, <1>6, <1>7, <1>8, <1>9,
     <1>10, <1>11, <1>12, <1>13, <1>14, <1>15, <1>16, <1>17, <1>18, <1>19,
     <1>20, <1>21, <1>22, <1>23, <1>24, <1>25, <1>26, <1>27, <1>28, <1>29,
     <1>30, <1>31, <1>32, <1>33, <1>34, <1>35, <1>36, <1>37, <1>38, <1>39,
     <1>40, <1>41, <1>42, <1>43, <1>44, <1>45, <1>46, <1>47, <1>48, <1>49,
     <1>50
     DEF Next, Call, Continue, Work

\* A step that executes nothing, completes nothing and reopens no task.
LEMMA ServedFrame ==
  ASSUME Served, UNCHANGED <<task_queue_out, executed>>,
         \A w \in Workers : pc'[w] \in {"lock_out", "post_out", "insert_out"} =>
             pc[w] \in {"lock_out", "post_out", "insert_out"} /\ job'[w] = job[w]
  PROVE  Served'
BY DEF Served

\* Only a task whose func has returned gets into task_queue_out.
LEMMA ServedStep == TypeInv /\ LocksHeld /\ Placed /\ Served /\ [Next]_vars => Served'
<1> SUFFICES ASSUME TypeInv /\ LocksHeld /\ Placed /\ Served, [Next]_vars PROVE Served'
  OBVIOUS
<1> USE ThreadsAssumption, ServedFrame DEF TypeInv, TypeOK, PcData, Agents
<1> USE DEF At, Goto, ClientPcs
<1> USE DEF handVars, queueVars, semVars, threadVars, eventVars, taskVars
<1>1. CASE UNCHANGED vars
  BY <1>1 DEF vars
<1>2. ASSUME NEW a \in Agents, AddTask(a) PROVE Served'
  <2>1. PICK t \in Tasks \ given : executed' = executed \ {t}
    BY <1>2 DEF AddTask
  <2>2. UNCHANGED <<job, task_queue_out>>
    BY <1>2 DEF AddTask
  <2>3. \A w \in Workers : pc'[w] \in {"lock_out", "post_out", "insert_out"} =>
          pc[w] \in {"lock_out", "post_out", "insert_out"}
    BY <1>2 DEF AddTask, MayCall
  <2>4. \A w \in Workers : job[w] # t
    BY ONLY Placed, <2>1, TasksAssumption DEF Placed, AllTasks
  <2>5. t \notin Range(task_queue_out)
    BY ONLY Placed, <2>1 DEF Placed
  <2> QED
    BY ONLY Served, <2>1, <2>2, <2>3, <2>4, <2>5 DEF Served
<1>3. ASSUME NEW a \in Agents, RemoveThread(a) PROVE Served'
  BY <1>3, OpsAssumption DEF RemoveThread, MayCall
<1>4. ASSUME NEW a \in Agents, AddThread(a) PROVE Served'
  BY <1>4, OpsAssumption DEF AddThread, MayCall, Create
<1>5. ASSUME NEW a \in Agents, TasksQueued(a) PROVE Served'
  BY <1>5, OpsAssumption DEF TasksQueued, MayCall
<1>6. ASSUME NEW a \in Agents, EventRead(a) PROVE Served'
  BY <1>6, OpsAssumption DEF EventRead, MayCall
<1>7. ASSUME NEW a \in Agents, Take(a) PROVE Served'
  BY <1>7, OpsAssumption DEF Take, MayCall
<1>8. ASSUME NEW a \in Agents, DirectTake(a) PROVE Served'
  BY <1>8, OpsAssumption DEF DirectTake, MayCall
<1>9. ASSUME NEW a \in Agents, Destroy(a) PROVE Served'
  BY <1>9, OpsAssumption DEF Destroy, MayCall
<1>10. ASSUME NEW a \in Agents, AddLock(a) PROVE Served'
  BY <1>10 DEF AddLock, Lock
<1>11. ASSUME NEW a \in Agents, AddPost(a) PROVE Served'
  BY <1>11 DEF AddPost
<1>12. ASSUME NEW a \in Agents, AddPostFails(a) PROVE Served'
  BY <1>12 DEF AddPostFails, Back
<1>13. ASSUME NEW a \in Agents, AddInsert(a) PROVE Served'
  BY <1>13 DEF AddInsert, Back
<1>14. ASSUME NEW a \in Agents, RegLock(a) PROVE Served'
  BY <1>14 DEF RegLock, Lock
<1>15. ASSUME NEW a \in Agents, RegInsert(a) PROVE Served'
  BY <1>15 DEF RegInsert, Back
<1>16. ASSUME NEW a \in Agents, RegInsertFails(a) PROVE Served'
  BY <1>16 DEF RegInsertFails
<1>17. ASSUME NEW a \in Agents, RegCancel(a) PROVE Served'
  BY <1>17 DEF RegCancel, Cancel
<1>18. ASSUME NEW a \in Agents, RegJoin(a) PROVE Served'
  BY <1>18 DEF RegJoin, Back
<1>19. ASSUME NEW a \in Agents, InitThread(a) PROVE Served'
  BY <1>19 DEF InitThread, Create
<1>20. ASSUME NEW a \in Agents, InitThreadFails(a) PROVE Served'
  BY <1>20 DEF InitThreadFails
<1>21. ASSUME NEW a \in Agents, InitDone(a) PROVE Served'
  <2>1. task_queue_out' = <<>> /\ Range(task_queue_out)' = {}
    BY <1>21, EmptyRange DEF InitDone
  <2>2. /\ UNCHANGED <<executed, job>>
        /\ \A w \in Workers : pc'[w] \in {"lock_out", "post_out", "insert_out"} =>
               pc[w] \in {"lock_out", "post_out", "insert_out"}
    BY <1>21 DEF InitDone
  <2> QED
    BY ONLY Served, <2>1, <2>2 DEF Served
<1>22. ASSUME NEW a \in Agents, TakeWait(a) PROVE Served'
  BY <1>22 DEF TakeWait
<1>23. ASSUME NEW a \in Agents, TakeLock(a) PROVE Served'
  BY <1>23 DEF TakeLock, Lock
<1>24. ASSUME NEW a \in Agents, TakeOut(a) PROVE Served'
  <2>1. Range(task_queue_out)' \subseteq Range(task_queue_out)
    BY ONLY TypeOK, TakeOut(a), TailRange DEF TypeOK, TakeOut
  <2>2. /\ UNCHANGED <<executed, job>>
        /\ \A w \in Workers : pc'[w] \in {"lock_out", "post_out", "insert_out"} =>
               pc[w] \in {"lock_out", "post_out", "insert_out"}
    BY <1>24 DEF TakeOut, Back
  <2> QED
    BY ONLY Served, <2>1, <2>2 DEF Served
<1>25. ASSUME NEW a \in Agents, TqLock(a) PROVE Served'
  BY <1>25 DEF TqLock, Lock
<1>26. ASSUME NEW a \in Agents, TqRead(a) PROVE Served'
  BY <1>26 DEF TqRead, Back
<1>27. ASSUME NEW a \in Agents, DestroySem(a) PROVE Served'
  BY <1>27 DEF DestroySem, WaitExit
<1>28. ASSUME NEW a \in Agents, DestroyLock(a) PROVE Served'
  BY <1>28 DEF DestroyLock, Lock
<1>29. ASSUME NEW a \in Agents, Clear(a) PROVE Served'
  BY <1>29 DEF Clear, Cancel
<1>30. ASSUME NEW a \in Agents, ClearJoin(a) PROVE Served'
  BY <1>30 DEF ClearJoin, Join
<1>31. ASSUME NEW a \in Agents, ClearDone(a) PROVE Served'
  BY <1>31 DEF ClearDone
<1>32. ASSUME NEW a \in Agents, AbortDone(a) PROVE Served'
  BY <1>32 DEF AbortDone
<1>33. ASSUME NEW a \in Agents, DestroyPost(a) PROVE Served'
  BY <1>33 DEF DestroyPost, PostExit
<1>34. ASSUME NEW a \in Agents, DestroyFree(a) PROVE Served'
  <2>1. task_queue_out' = <<>> /\ Range(task_queue_out)' = {}
    BY <1>34, EmptyRange DEF DestroyFree
  <2>2. /\ UNCHANGED <<executed, job>>
        /\ \A w \in Workers : pc'[w] \in {"lock_out", "post_out", "insert_out"} =>
               pc[w] \in {"lock_out", "post_out", "insert_out"}
    BY <1>34 DEF DestroyFree
  <2> QED
    BY ONLY Served, <2>1, <2>2 DEF Served
<1>35. ASSUME NEW w \in Workers, WaitIn(w) PROVE Served'
  BY <1>35 DEF WaitIn
<1>36. ASSUME NEW w \in Workers, LockIn(w) PROVE Served'
  BY <1>36 DEF LockIn, Lock
<1>37. ASSUME NEW w \in Workers, TakeIn(w) PROVE Served'
  BY <1>37 DEF TakeIn
<1>38. ASSUME NEW w \in Workers, RunTask(w) PROVE Served'
  <2>1. /\ job[w] \in Tasks /\ executed' = executed \cup {job[w]}
        /\ UNCHANGED <<job, task_queue_out>>
        /\ \A v \in Workers \ {w} : pc'[v] = pc[v]
    BY <1>38 DEF RunTask
  <2> QED
    BY ONLY Served, <2>1 DEF Served
<1>39. ASSUME NEW w \in Workers, LockOut(w) PROVE Served'
  BY <1>39 DEF LockOut, Lock
<1>40. ASSUME NEW w \in Workers, PostOut(w) PROVE Served'
  BY <1>40 DEF PostOut
<1>41. ASSUME NEW w \in Workers, PostOutFails(w) PROVE Served'
  BY <1>41 DEF PostOutFails
<1>42. ASSUME NEW w \in Workers, InsertOut(w) PROVE Served'
  <2>1. job[w] \in executed \cap Tasks
    BY <1>42 DEF InsertOut, Served
  <2>2. Range(task_queue_out)' \subseteq Range(task_queue_out) \cup {job[w]}
    <3>1. job[w] \in AllTasks /\ task_queue_out \in Seq(AllTasks)
      BY <2>1 DEF AllTasks
    <3>2. Range(Append(task_queue_out, job[w])) = Range(task_queue_out) \cup {job[w]}
      BY ONLY <3>1, AppendRange
    <3> QED
      BY ONLY <3>2, InsertOut(w) DEF InsertOut
  <2>3. /\ executed' = executed /\ pc' = [pc EXCEPT ![w] = "event"]
        /\ \A v \in Workers \ {w} : job'[v] = job[v]
    BY <1>42 DEF InsertOut, Goto
  <2> QED
    BY ONLY Served, TypeOK, <2>1, <2>2, <2>3, w \in Workers DEF Served, TypeOK, Agents
<1>43. ASSUME NEW w \in Workers, Event(w) PROVE Served'
  BY <1>43 DEF Event
<1>44. ASSUME NEW w \in Workers, Die(w) PROVE Served'
  BY <1>44 DEF Die
<1>45. ASSUME NEW w \in Workers, RunExit(w) PROVE Served'
  <2>1. CASE w \in canceled
    BY <1>45, <2>1 DEF RunExit
  <2>2. CASE w \notin canceled
    BY <1>45, <2>2 DEF RunExit
  <2> QED
    BY <2>1, <2>2
<1>46. ASSUME NEW w \in Workers, ExitSem(w) PROVE Served'
  BY <1>46 DEF ExitSem, WaitExit
<1>47. ASSUME NEW w \in Workers, ExitLock(w) PROVE Served'
  BY <1>47 DEF ExitLock, Lock
<1>48. ASSUME NEW w \in Workers, ExitTake(w) PROVE Served'
  BY <1>48 DEF ExitTake
<1>49. ASSUME NEW w \in Workers, ExitPost(w) PROVE Served'
  <2>1. CASE PostExit(w, "exit_post_own", "leave_own")
    BY <2>1 DEF PostExit
  <2>2. CASE PostExit(w, "exit_post_lost", "leave_lost")
    BY <2>2 DEF PostExit
  <2> QED
    BY <1>49, <2>1, <2>2 DEF ExitPost
<1>50. ASSUME NEW w \in Workers, Leave(w) PROVE Served'
  BY <1>50 DEF Leave
<1> QED
BY ONLY [Next]_vars, <1>1, <1>2, <1>3, <1>4, <1>5, <1>6, <1>7, <1>8, <1>9,
     <1>10, <1>11, <1>12, <1>13, <1>14, <1>15, <1>16, <1>17, <1>18, <1>19,
     <1>20, <1>21, <1>22, <1>23, <1>24, <1>25, <1>26, <1>27, <1>28, <1>29,
     <1>30, <1>31, <1>32, <1>33, <1>34, <1>35, <1>36, <1>37, <1>38, <1>39,
     <1>40, <1>41, <1>42, <1>43, <1>44, <1>45, <1>46, <1>47, <1>48, <1>49,
     <1>50
     DEF Next, Call, Continue, Work

\* A step that leaves the places of tasks alone and cancels nobody.
LEMMA KeptFrame ==
  ASSUME Kept, UNCHANGED <<job, arg, task_queue_in, task_queue_out, given>>,
         pool' \in {"init", "live"} => pool \in {"init", "live"} /\ canceled' \subseteq canceled
  PROVE  Kept'
BY DEF Kept, Somewhere

\* The elements of a queue without repetition are as many as it is long.
LEMMA RangeCount ==
  ASSUME NEW S, NEW s \in Seq(S), IsInjective(s)
  PROVE  IsFiniteSet(Range(s)) /\ Cardinality(Range(s)) = Len(s)
<1>1. Len(s) \in Nat /\ DOMAIN s = 1 .. Len(s)
  OBVIOUS
<1>2. IsFiniteSet(1 .. Len(s)) /\ Cardinality(1 .. Len(s)) = Len(s)
  BY <1>1, FS_Interval
<1>3. /\ s \in [1 .. Len(s) -> Range(s)]
      /\ \A x \in Range(s) : \E i \in 1 .. Len(s) : s[i] = x
      /\ \A i, j \in 1 .. Len(s) : s[i] = s[j] => i = j
  BY <1>1 DEF Range, IsInjective
<1>4. s \in Surjection(1 .. Len(s), Range(s)) /\ s \in Injection(1 .. Len(s), Range(s))
  BY ONLY <1>3 DEF Surjection, Injection, IsInjective
<1> QED
  BY <1>2, <1>4, FS_Surjection

\* sem_queue_out has room for the task a worker is about to post.
LEMMA RoomOut ==
  ASSUME TypeInv, LocksHeld, UnlocksOwnMutex, OutTokens, Placed, IsFiniteSet(AllTasks),
         SemMax >= Cardinality(AllTasks), pool # "freed",
         NEW w \in Workers, pc[w] = "post_out"
  PROVE  sem_queue_out < SemMax
<1> USE ThreadsAssumption
<1> DEFINE R == Range(task_queue_out)
<1>1. job[w] \in AllTasks /\ job[w] # None
  BY TasksAssumption DEF TypeInv, PcData
<1>2. job[w] \notin R /\ R \subseteq AllTasks
  <2>1. task_queue_out \in Seq(AllTasks)
    BY DEF TypeInv, TypeOK
  <2> QED
    BY <1>1, <2>1 DEF Placed, Range
<1>3. IsFiniteSet(R) /\ Cardinality(R) = Len(task_queue_out)
  BY RangeCount DEF TypeInv, TypeOK, Placed
<1> HIDE DEF R
<1>4. Cardinality(R \cup {job[w]}) = Cardinality(R) + 1
  BY <1>2, <1>3, FS_AddElement
<1>5. Cardinality(R \cup {job[w]}) <= Cardinality(AllTasks)
  BY <1>1, <1>2, FS_Subset
<1>6. AddingOut = {}
  BY DEF LocksHeld, OutSection, AddingOut, Agents, TypeInv, TypeOK
<1>7. sem_queue_out + Cardinality(TakingOut) = Len(task_queue_out) + Cardinality(AddingOut)
  BY DEF OutTokens, Count, TakingOut, AddingOut
<1>8. sem_queue_out \in Nat /\ Len(task_queue_out) \in Nat /\ Cardinality(AllTasks) \in Nat
  BY FS_CardinalityType DEF TypeInv, TypeOK
<1>9. Cardinality(AddingOut) = 0
  BY <1>6, FS_EmptySet
<1> QED
  BY <1>3, <1>4, <1>5, <1>7, <1>8, <1>9, CountsNat, LimitsAssumption

\* A live pool loses no task: it would take a cancelled thread, a full semaphore or
\* two threads in one queue.
LEMMA KeptStep == IsFiniteSet(AllTasks) /\ TypeInv /\ Startup /\ LocksHeld /\ OutTokens /\ UnlocksOwnMutex
    /\ Destruction /\ Joiners /\ HandsEmpty /\ Placed /\ Kept /\ [Next]_vars => Kept'
<1> SUFFICES ASSUME IsFiniteSet(AllTasks) /\ TypeInv /\ Startup /\ LocksHeld /\ OutTokens /\ UnlocksOwnMutex
    /\ Destruction /\ Joiners /\ HandsEmpty /\ Placed /\ Kept, [Next]_vars PROVE Kept'
  OBVIOUS
<1> USE ThreadsAssumption, KeptFrame DEF TypeInv, TypeOK, PcData, Agents
<1> USE DEF At, handVars, queueVars, semVars, threadVars, eventVars, taskVars
<1>1. CASE UNCHANGED vars
  BY <1>1 DEF vars
<1>2. ASSUME NEW a \in Agents, AddTask(a) PROVE Kept'
  <2>1. PICK t \in AllTasks \ given :
          given' = given \cup {t} /\ arg' = [arg EXCEPT ![a] = t]
    BY <1>2 DEF AddTask, AllTasks
  <2>2. /\ UNCHANGED <<job, task_queue_in, task_queue_out, canceled, pool>>
        /\ arg[a] = None
    BY <1>2, OpsAssumption DEF AddTask, MayCall, HandsEmpty
  <2>3. arg'[a] = t /\ \A b \in Agents \ {a} : arg'[b] = arg[b]
    BY ONLY <2>1, TypeOK, a \in Agents DEF TypeOK
  <2>4. None \notin given
    BY ONLY TypeOK, TasksAssumption DEF TypeOK
  <2> QED
    BY ONLY Kept, <2>1, <2>2, <2>3, <2>4, a \in Agents DEF Kept, Somewhere
<1>3. ASSUME NEW a \in Agents, RemoveThread(a) PROVE Kept'
  <2>1. PICK t \in AllTasks \ given :
          given' = given \cup {t} /\ arg' = [arg EXCEPT ![a] = t]
    BY <1>3 DEF RemoveThread, AllTasks
  <2>2. /\ UNCHANGED <<job, task_queue_in, task_queue_out, canceled, pool>>
        /\ arg[a] = None
    BY <1>3, OpsAssumption DEF RemoveThread, MayCall, HandsEmpty
  <2>3. arg'[a] = t /\ \A b \in Agents \ {a} : arg'[b] = arg[b]
    BY ONLY <2>1, TypeOK, a \in Agents DEF TypeOK
  <2>4. None \notin given
    BY ONLY TypeOK, TasksAssumption DEF TypeOK
  <2> QED
    BY ONLY Kept, <2>1, <2>2, <2>3, <2>4, a \in Agents DEF Kept, Somewhere
<1>4. ASSUME NEW a \in Agents, AddThread(a) PROVE Kept'
  BY <1>4, OpsAssumption DEF AddThread, MayCall, Create
<1>5. ASSUME NEW a \in Agents, TasksQueued(a) PROVE Kept'
  BY <1>5, OpsAssumption DEF TasksQueued, MayCall
<1>6. ASSUME NEW a \in Agents, EventRead(a) PROVE Kept'
  BY <1>6, OpsAssumption DEF EventRead, MayCall
<1>7. ASSUME NEW a \in Agents, Take(a) PROVE Kept'
  BY <1>7, OpsAssumption DEF Take, MayCall
<1>8. ASSUME NEW a \in Agents, DirectTake(a) PROVE Kept'
  BY <1>8, OpsAssumption DEF DirectTake, MayCall
<1>9. ASSUME NEW a \in Agents, Destroy(a) PROVE Kept'
  BY <1>9, OpsAssumption DEF Destroy, MayCall
<1>10. ASSUME NEW a \in Agents, AddLock(a) PROVE Kept'
  BY <1>10 DEF AddLock, Lock
<1>11. ASSUME NEW a \in Agents, AddPost(a) PROVE Kept'
  BY <1>11 DEF AddPost
<1>12. ASSUME NEW a \in Agents, AddPostFails(a) PROVE Kept'
  <2>1. /\ UNCHANGED <<job, task_queue_in, task_queue_out, canceled, pool>>
        /\ given' = given \ {arg[a]} /\ arg' = [arg EXCEPT ![a] = None]
    BY <1>12 DEF AddPostFails
  <2>2. \A b \in Agents \ {a} : arg'[b] = arg[b]
    BY ONLY <2>1, TypeOK DEF TypeOK
  <2> QED
    BY ONLY Kept, <2>1, <2>2 DEF Kept, Somewhere
<1>13. ASSUME NEW a \in Agents, AddInsert(a) PROVE Kept'
  <2>1. /\ arg[a] \in AllTasks /\ UNCHANGED <<job, task_queue_out, given, canceled, pool>>
        /\ task_queue_in' = Append(task_queue_in, arg[a])
        /\ arg' = [arg EXCEPT ![a] = None]
    BY <1>13 DEF AddInsert
  <2>2. Range(task_queue_in)' = Range(task_queue_in) \cup {arg[a]}
    BY ONLY TypeOK, <2>1, AppendRange, a \in Agents DEF TypeOK
  <2>3. \A b \in Agents \ {a} : arg'[b] = arg[b]
    BY ONLY <2>1, TypeOK DEF TypeOK
  <2> QED
    BY ONLY Kept, <2>1, <2>2, <2>3 DEF Kept, Somewhere
<1>14. ASSUME NEW a \in Agents, RegLock(a) PROVE Kept'
  BY <1>14 DEF RegLock, Lock
<1>15. ASSUME NEW a \in Agents, RegInsert(a) PROVE Kept'
  BY <1>15 DEF RegInsert, Back
<1>16. ASSUME NEW a \in Agents, RegInsertFails(a) PROVE Kept'
  BY <1>16 DEF RegInsertFails
<1>17. ASSUME NEW a \in Agents, RegCancel(a) PROVE Kept'
  <2>1. "insert" \in Faults
    BY <1>17 DEF RegCancel, Joiners
  <2> QED
    BY <2>1 DEF Kept, RoomForAll
<1>18. ASSUME NEW a \in Agents, RegJoin(a) PROVE Kept'
  BY <1>18 DEF RegJoin, Join
<1>19. ASSUME NEW a \in Agents, InitThread(a) PROVE Kept'
  BY <1>19 DEF InitThread, Create
<1>20. ASSUME NEW a \in Agents, InitThreadFails(a) PROVE Kept'
  BY <1>20 DEF InitThreadFails
<1>21. ASSUME NEW a \in Agents, InitDone(a) PROVE Kept'
  <2>1. pool = "init"
    BY <1>21 DEF InitDone, Startup, WorkerPcs, Leaving
  <2>2. UNCHANGED <<job, arg, task_queue_in, task_queue_out, given, canceled>>
    BY <1>21, <2>1 DEF InitDone, Startup
  <2> QED
    BY <2>1, <2>2
<1>22. ASSUME NEW a \in Agents, TakeWait(a) PROVE Kept'
  BY <1>22 DEF TakeWait
<1>23. ASSUME NEW a \in Agents, TakeLock(a) PROVE Kept'
  BY <1>23 DEF TakeLock, Lock
<1>24. ASSUME NEW a \in Agents, TakeOut(a) PROVE Kept'
  <2>1. ~Race(a)
    BY ONLY ThreadsAssumption, TypeOK, LocksHeld, UnlocksOwnMutex, TakeOut(a), a \in Agents
       DEF TypeOK, LocksHeld, OutSection, Race, At, Agents, TakeOut
  <2>2. /\ UNCHANGED <<job, arg, task_queue_in, canceled, pool>> /\ task_queue_out # <<>>
        /\ task_queue_out' = Tail(task_queue_out)
        /\ given' = given \ {Head(task_queue_out)}
    BY <1>24, <2>1 DEF TakeOut
  <2>3. Range(task_queue_out)' = Range(task_queue_out) \ {Head(task_queue_out)}
    BY ONLY Placed, TypeOK, <2>2, TailRange DEF Placed, TypeOK
  <2> QED
    BY ONLY Kept, <2>2, <2>3 DEF Kept, Somewhere
<1>25. ASSUME NEW a \in Agents, TqLock(a) PROVE Kept'
  BY <1>25 DEF TqLock, Lock
<1>26. ASSUME NEW a \in Agents, TqRead(a) PROVE Kept'
  BY <1>26 DEF TqRead, Back
<1>27. ASSUME NEW a \in Agents, DestroySem(a) PROVE Kept'
  BY <1>27 DEF DestroySem, WaitExit
<1>28. ASSUME NEW a \in Agents, DestroyLock(a) PROVE Kept'
  BY <1>28 DEF DestroyLock, Lock
<1>29. ASSUME NEW a \in Agents, Clear(a) PROVE Kept'
  <2>1. a \in Clients /\ pool \notin {"init", "live"} /\ pool' = pool
    BY <1>29 DEF Clear, Destruction, WorkerPcs, Leaving
  <2> QED
    BY <2>1 DEF Kept
<1>30. ASSUME NEW a \in Agents, ClearJoin(a) PROVE Kept'
  BY <1>30 DEF ClearJoin, Join
<1>31. ASSUME NEW a \in Agents, ClearDone(a) PROVE Kept'
  BY <1>31 DEF ClearDone
<1>32. ASSUME NEW a \in Agents, AbortDone(a) PROVE Kept'
  <2>1. pool' = "freed"
    BY <1>32 DEF AbortDone
  <2> QED
    BY <2>1 DEF Kept
<1>33. ASSUME NEW a \in Agents, DestroyPost(a) PROVE Kept'
  BY <1>33 DEF DestroyPost, PostExit
<1>34. ASSUME NEW a \in Agents, DestroyFree(a) PROVE Kept'
  <2>1. pool' = "freed"
    BY <1>34 DEF DestroyFree
  <2> QED
    BY <2>1 DEF Kept
<1>35. ASSUME NEW w \in Workers, WaitIn(w) PROVE Kept'
  BY <1>35 DEF WaitIn
<1>36. ASSUME NEW w \in Workers, LockIn(w) PROVE Kept'
  BY <1>36 DEF LockIn, Lock
<1>37. ASSUME NEW w \in Workers, TakeIn(w) PROVE Kept'
  <2>1. /\ UNCHANGED <<arg, task_queue_out, given, canceled, pool>> /\ task_queue_in # <<>>
        /\ task_queue_in' = Tail(task_queue_in) /\ job[w] = None
        /\ job' = [job EXCEPT ![w] = Head(task_queue_in)]
    BY <1>37 DEF TakeIn, HandsEmpty, Empty
  <2>2. Range(task_queue_in)' = Range(task_queue_in) \ {Head(task_queue_in)}
    BY ONLY Placed, TypeOK, <2>1, TailRange DEF Placed, TypeOK
  <2>3. \A v \in Workers \ {w} : job'[v] = job[v]
    BY ONLY <2>1, TypeOK DEF TypeOK
  <2>4. job'[w] = Head(task_queue_in)
    BY ONLY <2>1, TypeOK, w \in Workers DEF TypeOK
  <2>5. None \notin given
    BY ONLY TypeOK, TasksAssumption DEF TypeOK
  <2> QED
    BY ONLY Kept, <2>1, <2>2, <2>3, <2>4, <2>5, w \in Workers DEF Kept, Somewhere
<1>38. ASSUME NEW w \in Workers, RunTask(w) PROVE Kept'
  BY <1>38 DEF RunTask
<1>39. ASSUME NEW w \in Workers, LockOut(w) PROVE Kept'
  BY <1>39 DEF LockOut, Lock
<1>40. ASSUME NEW w \in Workers, PostOut(w) PROVE Kept'
  BY <1>40 DEF PostOut
<1>41. ASSUME NEW w \in Workers, PostOutFails(w) PROVE Kept'
  <2>1. ~(RoomForAll /\ pool \in {"init", "live"})
    BY <1>41, RoomOut, LimitsAssumption DEF PostOutFails, RoomForAll
  <2>2. pool' = pool
    BY <1>41 DEF PostOutFails
  <2> QED
    BY <2>1, <2>2 DEF Kept, RoomForAll
<1>42. ASSUME NEW w \in Workers, InsertOut(w) PROVE Kept'
  <2>1. ~Race(w)
    BY ONLY ThreadsAssumption, TypeOK, LocksHeld, UnlocksOwnMutex, InsertOut(w), w \in Agents
       DEF TypeOK, LocksHeld, OutSection, Race, At, Agents, InsertOut
  <2>2. /\ job[w] \in AllTasks /\ UNCHANGED <<arg, task_queue_in, given, canceled, pool>>
        /\ task_queue_out' = Append(task_queue_out, job[w])
        /\ job' = [job EXCEPT ![w] = None]
    BY <1>42, <2>1 DEF InsertOut
  <2>3. Range(task_queue_out)' = Range(task_queue_out) \cup {job[w]}
    BY ONLY TypeOK, <2>2, AppendRange DEF TypeOK
  <2>4. \A v \in Workers \ {w} : job'[v] = job[v]
    BY ONLY <2>2, TypeOK DEF TypeOK
  <2> QED
    BY ONLY Kept, <2>2, <2>3, <2>4 DEF Kept, Somewhere
<1>43. ASSUME NEW w \in Workers, Event(w) PROVE Kept'
  BY <1>43 DEF Event
<1>44. ASSUME NEW w \in Workers, Die(w) PROVE Kept'
  <2>1. ~(RoomForAll /\ pool \in {"init", "live"}) /\ pool' = pool
    BY <1>44 DEF Die, Kept
  <2> QED
    BY <2>1 DEF Kept, RoomForAll
<1>45. ASSUME NEW w \in Workers, RunExit(w) PROVE Kept'
  <2>1. CASE w \in canceled
    <3>1. ~(RoomForAll /\ pool \in {"init", "live"})
      BY <2>1 DEF Kept
    <3> QED
      BY <1>45, <3>1 DEF RunExit, Kept, RoomForAll
  <2>2. CASE w \notin canceled
    <3>1. /\ UNCHANGED <<arg, task_queue_in, task_queue_out, canceled, pool>>
          /\ given' = given \ {job[w]} /\ job' = [job EXCEPT ![w] = None]
      BY <1>45, <2>2 DEF RunExit
    <3>2. \A v \in Workers \ {w} : job'[v] = job[v]
      BY ONLY <3>1, TypeOK DEF TypeOK
    <3> QED
      BY ONLY Kept, <3>1, <3>2 DEF Kept, Somewhere
  <2> QED
    BY <2>1, <2>2
<1>46. ASSUME NEW w \in Workers, ExitSem(w) PROVE Kept'
  BY <1>46 DEF ExitSem, WaitExit
<1>47. ASSUME NEW w \in Workers, ExitLock(w) PROVE Kept'
  BY <1>47 DEF ExitLock, Lock
<1>48. ASSUME NEW w \in Workers, ExitTake(w) PROVE Kept'
  BY <1>48 DEF ExitTake
<1>49. ASSUME NEW w \in Workers, ExitPost(w) PROVE Kept'
  BY <1>49 DEF ExitPost, PostExit
<1>50. ASSUME NEW w \in Workers, Leave(w) PROVE Kept'
  BY <1>50 DEF Leave
<1> QED
BY ONLY [Next]_vars, <1>1, <1>2, <1>3, <1>4, <1>5, <1>6, <1>7, <1>8, <1>9,
     <1>10, <1>11, <1>12, <1>13, <1>14, <1>15, <1>16, <1>17, <1>18, <1>19,
     <1>20, <1>21, <1>22, <1>23, <1>24, <1>25, <1>26, <1>27, <1>28, <1>29,
     <1>30, <1>31, <1>32, <1>33, <1>34, <1>35, <1>36, <1>37, <1>38, <1>39,
     <1>40, <1>41, <1>42, <1>43, <1>44, <1>45, <1>46, <1>47, <1>48, <1>49,
     <1>50
     DEF Next, Call, Continue, Work

\* No task is there when threadpool_init() begins.
LEMMA TasksInit == Init => HandsEmpty /\ Placed /\ Served /\ Kept
<1> SUFFICES ASSUME Init PROVE HandsEmpty /\ Placed /\ Served /\ Kept
  OBVIOUS
<1> USE ThreadsAssumption DEF Init, Agents
<1>1. HandsEmpty
  BY DEF HandsEmpty, Empty
<1>2. Placed
  BY EmptyRange DEF Placed
<1>3. Served
  BY EmptyRange DEF Served
<1>4. Kept
  BY DEF Kept
<1> QED
  BY <1>1, <1>2, <1>3, <1>4

\* The places of t where it can be once are one if it is there.
LEMMA OnceCount ==
  ASSUME NEW S, NEW f, NEW t, \A x, y \in S : f[x] = t /\ f[y] = t => x = y
  PROVE  Cardinality({x \in S : f[x] = t}) = IF \E x \in S : f[x] = t THEN 1 ELSE 0
<1>1. CASE \E x \in S : f[x] = t
  <2>1. PICK x \in S : f[x] = t
    BY <1>1
  <2>2. {y \in S : f[y] = t} = {x}
    BY <2>1
  <2> QED
    BY <1>1, <2>2, FS_Singleton
<1>2. CASE ~ \E x \in S : f[x] = t
  <2>1. {y \in S : f[y] = t} = {}
    BY <1>2
  <2> QED
    BY <1>2, <2>1, FS_EmptySet
<1> QED
  BY <1>1, <1>2

\* The logical form of TaskInOnePlace implies the one that counts.
LEMMA PlacesCounted ==
  ASSUME TypeOK, Placed, NEW t \in AllTasks
  PROVE  /\ Places(t) <= (IF t \in given THEN 1 ELSE 0)
         /\ t \in given /\ Somewhere(t) => Places(t) = 1
<1> DEFINE In == {i \in DOMAIN task_queue_in : task_queue_in[i] = t}
<1> DEFINE Out == {i \in DOMAIN task_queue_out : task_queue_out[i] = t}
<1> DEFINE Job == {w \in Workers : job[w] = t}
<1> DEFINE Arg == {a \in Agents : arg[a] = t}
<1>1. t # None
  BY TasksAssumption
<1>2. Cardinality(In) = IF t \in Range(task_queue_in) THEN 1 ELSE 0
  <2>1. t \in Range(task_queue_in) <=> \E i \in DOMAIN task_queue_in : task_queue_in[i] = t
    BY DEF Range
  <2>2. \A i, j \in DOMAIN task_queue_in : task_queue_in[i] = t /\ task_queue_in[j] = t => i = j
    BY DEF Placed, IsInjective
  <2>3. Cardinality(In) =
          IF \E i \in DOMAIN task_queue_in : task_queue_in[i] = t THEN 1 ELSE 0
    BY ONLY <2>2, OnceCount
  <2> QED
    BY ONLY <2>1, <2>3
<1>3. Cardinality(Out) = IF t \in Range(task_queue_out) THEN 1 ELSE 0
  <2>1. t \in Range(task_queue_out) <=> \E i \in DOMAIN task_queue_out : task_queue_out[i] = t
    BY DEF Range
  <2>2. \A i, j \in DOMAIN task_queue_out : task_queue_out[i] = t /\ task_queue_out[j] = t => i = j
    BY DEF Placed, IsInjective
  <2>3. Cardinality(Out) =
          IF \E i \in DOMAIN task_queue_out : task_queue_out[i] = t THEN 1 ELSE 0
    BY ONLY <2>2, OnceCount
  <2> QED
    BY ONLY <2>1, <2>3
<1>4. Cardinality(Job) = IF \E w \in Workers : job[w] = t THEN 1 ELSE 0
  <2>1. \A v, w \in Workers : job[v] = t /\ job[w] = t => v = w
    BY <1>1 DEF Placed
  <2> QED
    BY ONLY <2>1, OnceCount
<1>5. Cardinality(Arg) = IF \E a \in Agents : arg[a] = t THEN 1 ELSE 0
  <2>1. \A a, b \in Agents : arg[a] = t /\ arg[b] = t => a = b
    BY <1>1 DEF Placed
  <2> QED
    BY ONLY <2>1, OnceCount
<1>6. Places(t) = Cardinality(In) + Cardinality(Out) + Cardinality(Job) + Cardinality(Arg)
  BY DEF Places
<1> HIDE DEF In, Out, Job, Arg
<1>7. /\ t \in Range(task_queue_in) => t \in given /\ t \notin Range(task_queue_out)
      /\ t \in Range(task_queue_out) => t \in given
      /\ (\E w \in Workers : job[w] = t) =>
            /\ t \in given /\ t \notin Range(task_queue_in) \cup Range(task_queue_out)
            /\ ~ \E a \in Agents : arg[a] = t
      /\ (\E a \in Agents : arg[a] = t) =>
            t \in given /\ t \notin Range(task_queue_in) \cup Range(task_queue_out)
  BY <1>1 DEF Placed
<1> QED
  BY <1>2, <1>3, <1>4, <1>5, <1>6, <1>7 DEF Somewhere

-----------------------------------------------------------------------------
\* No step takes a task out of one hand without putting it into another, nor puts
\* one into a hand or a queue that is still somewhere else, as long as each
\* thread unlocks the mutexes it has locked.
LEMMA TasksStep ==
  ASSUME UnlocksOwnMutex, IsFiniteSet(AllTasks)
  PROVE  TInv /\ [Next]_vars => TInv'
<1> SUFFICES ASSUME TInv, [Next]_vars PROVE TInv'
  OBVIOUS
<1>1. LInv'
  BY NextInv, HandsStep, HandlesStep, DestructionStep, ExitExclusiveStep
     DEF TInv, LInv, IInv
<1>2. TypeInv /\ Startup /\ LocksHeld /\ OutTokens /\ Destruction /\ Joiners
        /\ HandsEmpty /\ Placed /\ Served /\ Kept
  BY DEF TInv, LInv, IInv
<1>3. HandsEmpty'
  BY <1>2, HandsStep
<1>4. Placed'
  BY <1>2, PlacedStep
<1>5. Served'
  BY <1>2, ServedStep
<1>6. Kept'
  BY <1>2, KeptStep
<1> QED
  BY <1>1, <1>3, <1>4, <1>5, <1>6 DEF TInv

\* The inductive invariant of the tasks holds of every state.
THEOREM TasksInductive ==
  ASSUME UnlocksOwnMutex, IsFiniteSet(AllTasks) PROVE Spec => []TInv
<1>1. Init => TInv
  BY TasksInit, InitInv, LivesInit DEF TInv, LInv
<1> QED
  BY <1>1, TasksStep, PTL DEF Spec

\* A task that was given to the pool is never in two places, and as long as the
\* pool is alive, nothing fails and the semaphores have room, it is in one
\* (threadpool_add_task(), _thread_handle_tasks(),
\* threadpool_take_completed_task()).
THEOREM NoTaskLostOrDoubled ==
  ASSUME UnlocksOwnMutex, IsFiniteSet(AllTasks) PROVE Spec => []TaskInOnePlace
<1>1. TInv => TaskInOnePlace
  BY PlacesCounted DEF TInv, LInv, IInv, TypeInv, Kept, RoomForAll, TaskInOnePlace
<1> QED
  BY <1>1, TasksInductive, PTL

\* What threadpool_take_completed_task() returns has been executed, and is no
\* exit task.
THEOREM OnlyExecutedCompleted ==
  ASSUME UnlocksOwnMutex, IsFiniteSet(AllTasks) PROVE Spec => []CompletedExecuted
<1>1. TInv => CompletedExecuted
  BY DEF TInv, Served, CompletedExecuted, Range
<1> QED
  BY <1>1, TasksInductive, PTL

-----------------------------------------------------------------------------
(* The pool implements TaskPool *)

\* The pool's queues and hands start as TaskPool's.
LEMMA RefinementInit == Init => TP!Init
BY DEF Init, TP!Init

\* Every step of the pool is a step of TaskPool or changes none of its variables.
LEMMA RefinementStep == LInv /\ HandsEmpty /\ LastThreads /\ [Next]_vars => [TP!Next]_(TP!vars)
<1> SUFFICES ASSUME LInv /\ HandsEmpty /\ LastThreads, [Next]_vars PROVE [TP!Next]_(TP!vars)
  OBVIOUS
<1> USE ThreadsAssumption DEF LInv, IInv, TypeInv, TypeOK, PcData, Agents
<1> USE DEF At, handVars, queueVars, semVars, threadVars, eventVars, taskVars
<1>1. CASE UNCHANGED vars
  BY <1>1 DEF vars, TP!vars
<1>2. ASSUME NEW a \in Agents, AddTask(a) PROVE [TP!Next]_(TP!vars)
  BY <1>2, OpsAssumption DEF TP!vars, AddTask, MayCall
<1>3. ASSUME NEW a \in Agents, RemoveThread(a) PROVE [TP!Next]_(TP!vars)
  BY <1>3, OpsAssumption DEF TP!vars, RemoveThread, MayCall
<1>4. ASSUME NEW a \in Agents, AddThread(a) PROVE [TP!Next]_(TP!vars)
  BY <1>4, OpsAssumption DEF TP!vars, AddThread, MayCall, Create
<1>5. ASSUME NEW a \in Agents, TasksQueued(a) PROVE [TP!Next]_(TP!vars)
  BY <1>5, OpsAssumption DEF TP!vars, TasksQueued, MayCall
<1>6. ASSUME NEW a \in Agents, EventRead(a) PROVE [TP!Next]_(TP!vars)
  BY <1>6, OpsAssumption DEF TP!vars, EventRead, MayCall
<1>7. ASSUME NEW a \in Agents, Take(a) PROVE [TP!Next]_(TP!vars)
  BY <1>7, OpsAssumption DEF TP!vars, Take, MayCall
<1>8. ASSUME NEW a \in Agents, DirectTake(a) PROVE [TP!Next]_(TP!vars)
  BY <1>8, OpsAssumption DEF TP!vars, DirectTake, MayCall
<1>9. ASSUME NEW a \in Agents, Destroy(a) PROVE [TP!Next]_(TP!vars)
  BY <1>9, OpsAssumption DEF TP!vars, Destroy, MayCall
<1>10. ASSUME NEW a \in Agents, AddLock(a) PROVE [TP!Next]_(TP!vars)
  BY <1>10 DEF TP!vars, AddLock, Lock
<1>11. ASSUME NEW a \in Agents, AddPost(a) PROVE [TP!Next]_(TP!vars)
  BY <1>11 DEF TP!vars, AddPost
<1>12. ASSUME NEW a \in Agents, AddPostFails(a) PROVE [TP!Next]_(TP!vars)
  BY <1>12 DEF TP!vars, AddPostFails, Back
<1>13. ASSUME NEW a \in Agents, AddInsert(a) PROVE [TP!Next]_(TP!vars)
  <2>1. task_queue_in' = Append(task_queue_in, arg[a]) /\ arg[a] \in AllTasks
        /\ UNCHANGED <<job, task_queue_out>>
    BY <1>13 DEF AddInsert
  <2> QED
    BY <2>1 DEF TP!Next, TP!Submit
<1>14. ASSUME NEW a \in Agents, RegLock(a) PROVE [TP!Next]_(TP!vars)
  BY <1>14 DEF TP!vars, RegLock, Lock
<1>15. ASSUME NEW a \in Agents, RegInsert(a) PROVE [TP!Next]_(TP!vars)
  BY <1>15 DEF TP!vars, RegInsert, Back
<1>16. ASSUME NEW a \in Agents, RegInsertFails(a) PROVE [TP!Next]_(TP!vars)
  BY <1>16 DEF TP!vars, RegInsertFails
<1>17. ASSUME NEW a \in Agents, RegCancel(a) PROVE [TP!Next]_(TP!vars)
  BY <1>17 DEF TP!vars, RegCancel, Cancel
<1>18. ASSUME NEW a \in Agents, RegJoin(a) PROVE [TP!Next]_(TP!vars)
  BY <1>18 DEF TP!vars, RegJoin
<1>19. ASSUME NEW a \in Agents, InitThread(a) PROVE [TP!Next]_(TP!vars)
  BY <1>19 DEF TP!vars, InitThread, Create
<1>20. ASSUME NEW a \in Agents, InitThreadFails(a) PROVE [TP!Next]_(TP!vars)
  BY <1>20 DEF TP!vars, InitThreadFails
<1>21. ASSUME NEW a \in Agents, InitDone(a) PROVE [TP!Next]_(TP!vars)
  <2>1. pool = "init"
    BY <1>21 DEF InitDone, Startup, WorkerPcs, Leaving
  <2>2. UNCHANGED <<job, task_queue_in, task_queue_out>>
    BY <1>21, <2>1 DEF InitDone, Startup
  <2> QED
    BY <2>2 DEF TP!vars
<1>22. ASSUME NEW a \in Agents, TakeWait(a) PROVE [TP!Next]_(TP!vars)
  BY <1>22 DEF TP!vars, TakeWait
<1>23. ASSUME NEW a \in Agents, TakeLock(a) PROVE [TP!Next]_(TP!vars)
  BY <1>23 DEF TP!vars, TakeLock, Lock
<1>24. ASSUME NEW a \in Agents, TakeOut(a) PROVE [TP!Next]_(TP!vars)
  <2>1. /\ task_queue_out # <<>> /\ UNCHANGED <<job, task_queue_in>>
        /\ task_queue_out' \in {Tail(task_queue_out), task_queue_out}
    BY <1>24 DEF TakeOut
  <2> QED
    BY <2>1 DEF TP!Next, TP!HandBack, TP!vars
<1>25. ASSUME NEW a \in Agents, TqLock(a) PROVE [TP!Next]_(TP!vars)
  BY <1>25 DEF TP!vars, TqLock, Lock
<1>26. ASSUME NEW a \in Agents, TqRead(a) PROVE [TP!Next]_(TP!vars)
  BY <1>26 DEF TP!vars, TqRead, Back
<1>27. ASSUME NEW a \in Agents, DestroySem(a) PROVE [TP!Next]_(TP!vars)
  BY <1>27 DEF TP!vars, DestroySem, WaitExit
<1>28. ASSUME NEW a \in Agents, DestroyLock(a) PROVE [TP!Next]_(TP!vars)
  BY <1>28 DEF TP!vars, DestroyLock, Lock
<1>29. ASSUME NEW a \in Agents, Clear(a) PROVE [TP!Next]_(TP!vars)
  BY <1>29 DEF TP!vars, Clear, Cancel
<1>30. ASSUME NEW a \in Agents, ClearJoin(a) PROVE [TP!Next]_(TP!vars)
  BY <1>30 DEF TP!vars, ClearJoin, Join
<1>31. ASSUME NEW a \in Agents, ClearDone(a) PROVE [TP!Next]_(TP!vars)
  BY <1>31 DEF TP!vars, ClearDone
<1>32. ASSUME NEW a \in Agents, AbortDone(a) PROVE [TP!Next]_(TP!vars)
  BY <1>32 DEF TP!vars, AbortDone
<1>33. ASSUME NEW a \in Agents, DestroyPost(a) PROVE [TP!Next]_(TP!vars)
  BY <1>33 DEF TP!vars, DestroyPost, PostExit
<1>34. ASSUME NEW a \in Agents, DestroyFree(a) PROVE [TP!Next]_(TP!vars)
  <2>1. a = Creator
    BY <1>34 DEF DestroyFree, Destruction, DestroyPcs, WorkerPcs, Leaving
  <2>2. \A w \in Workers : job[w] = None
    BY <1>34, <2>1 DEF DestroyFree, LastThreads, HandsEmpty, Empty, Leaving
  <2>3. task_queue_in' = <<>> /\ task_queue_out' = <<>> /\ job' = job
    BY <1>34 DEF DestroyFree
  <2> QED
    BY <2>2, <2>3 DEF TP!Next, TP!Drop
<1>35. ASSUME NEW w \in Workers, WaitIn(w) PROVE [TP!Next]_(TP!vars)
  BY <1>35 DEF TP!vars, WaitIn
<1>36. ASSUME NEW w \in Workers, LockIn(w) PROVE [TP!Next]_(TP!vars)
  BY <1>36 DEF TP!vars, LockIn, Lock
<1>37. ASSUME NEW w \in Workers, TakeIn(w) PROVE [TP!Next]_(TP!vars)
  <2>1. /\ task_queue_in # <<>> /\ job[w] = None
        /\ job' = [job EXCEPT ![w] = Head(task_queue_in)]
        /\ task_queue_in' = Tail(task_queue_in) /\ task_queue_out' = task_queue_out
    BY <1>37 DEF TakeIn, HandsEmpty, Empty
  <2> QED
    BY <2>1 DEF TP!Next, TP!Start
<1>38. ASSUME NEW w \in Workers, RunTask(w) PROVE [TP!Next]_(TP!vars)
  BY <1>38 DEF TP!vars, RunTask
<1>39. ASSUME NEW w \in Workers, LockOut(w) PROVE [TP!Next]_(TP!vars)
  BY <1>39 DEF TP!vars, LockOut, Lock
<1>40. ASSUME NEW w \in Workers, PostOut(w) PROVE [TP!Next]_(TP!vars)
  BY <1>40 DEF TP!vars, PostOut
<1>41. ASSUME NEW w \in Workers, PostOutFails(w) PROVE [TP!Next]_(TP!vars)
  <2>1. /\ job[w] # None /\ job' = [job EXCEPT ![w] = None]
        /\ UNCHANGED <<task_queue_in, task_queue_out>>
    BY <1>41, TasksAssumption DEF PostOutFails, AllTasks
  <2> QED
    BY <2>1 DEF TP!Next, TP!Discard
<1>42. ASSUME NEW w \in Workers, InsertOut(w) PROVE [TP!Next]_(TP!vars)
  <2>1. /\ job[w] # None /\ job' = [job EXCEPT ![w] = None]
        /\ task_queue_in' = task_queue_in
        /\ task_queue_out' \in {Append(task_queue_out, job[w]), task_queue_out}
    BY <1>42, TasksAssumption DEF InsertOut
  <2>2. CASE task_queue_out' = Append(task_queue_out, job[w])
    BY <2>1, <2>2 DEF TP!Next, TP!Finish
  <2>3. CASE task_queue_out' = task_queue_out
    BY <2>1, <2>3 DEF TP!Next, TP!Discard
  <2> QED
    BY <2>1, <2>2, <2>3
<1>43. ASSUME NEW w \in Workers, Event(w) PROVE [TP!Next]_(TP!vars)
  BY <1>43 DEF TP!vars, Event
<1>44. ASSUME NEW w \in Workers, Die(w) PROVE [TP!Next]_(TP!vars)
  <2>1. /\ job' = [job EXCEPT ![w] = None]
        /\ UNCHANGED <<task_queue_in, task_queue_out>>
    BY <1>44 DEF Die
  <2>2. CASE job[w] = None
    <3>1. job' = job
      BY <2>1, <2>2
    <3> QED
      BY <2>1, <3>1 DEF TP!vars
  <2>3. CASE job[w] # None
    BY <2>1, <2>3 DEF TP!Next, TP!Discard
  <2> QED
    BY <2>2, <2>3
<1>45. ASSUME NEW w \in Workers, RunExit(w) PROVE [TP!Next]_(TP!vars)
  <2>1. /\ job[w] # None /\ job' = [job EXCEPT ![w] = None]
        /\ UNCHANGED <<task_queue_in, task_queue_out>>
    BY <1>45, TasksAssumption DEF RunExit, AllTasks
  <2> QED
    BY <2>1 DEF TP!Next, TP!Discard
<1>46. ASSUME NEW w \in Workers, ExitSem(w) PROVE [TP!Next]_(TP!vars)
  BY <1>46 DEF TP!vars, ExitSem, WaitExit
<1>47. ASSUME NEW w \in Workers, ExitLock(w) PROVE [TP!Next]_(TP!vars)
  BY <1>47 DEF TP!vars, ExitLock, Lock
<1>48. ASSUME NEW w \in Workers, ExitTake(w) PROVE [TP!Next]_(TP!vars)
  BY <1>48 DEF TP!vars, ExitTake
<1>49. ASSUME NEW w \in Workers, ExitPost(w) PROVE [TP!Next]_(TP!vars)
  BY <1>49 DEF TP!vars, ExitPost, PostExit
<1>50. ASSUME NEW w \in Workers, Leave(w) PROVE [TP!Next]_(TP!vars)
  BY <1>50 DEF TP!vars, Leave
<1> QED
BY ONLY [Next]_vars, <1>1, <1>2, <1>3, <1>4, <1>5, <1>6, <1>7, <1>8, <1>9,
     <1>10, <1>11, <1>12, <1>13, <1>14, <1>15, <1>16, <1>17, <1>18, <1>19,
     <1>20, <1>21, <1>22, <1>23, <1>24, <1>25, <1>26, <1>27, <1>28, <1>29,
     <1>30, <1>31, <1>32, <1>33, <1>34, <1>35, <1>36, <1>37, <1>38, <1>39,
     <1>40, <1>41, <1>42, <1>43, <1>44, <1>45, <1>46, <1>47, <1>48, <1>49,
     <1>50
     DEF Next, Call, Continue, Work

\* A pool whose tasks add no thread implements the first-in first-out service of
\* TaskPool, with any number of threads, even where threadpool_tasks_queued()
\* opens the wrong mutex.
THEOREM PoolImplementsTaskPool ==
  ASSUME TasksAddNoThread PROVE Spec => ImplementsTaskPool
<1>1. Init => HandsEmpty
  BY TasksInit
<1>2. LInv /\ HandsEmpty /\ [Next]_vars => HandsEmpty'
  BY HandsStep DEF LInv, IInv
<1>3. Spec => []HandsEmpty
  BY <1>1, <1>2, LivesInductive, PTL DEF Spec
<1>4. LInv /\ HandsEmpty /\ EndInv /\ [Next]_vars => [TP!Next]_(TP!vars)
  BY RefinementStep DEF EndInv
<1> QED
  BY <1>3, <1>4, RefinementInit, LivesInductive, EndInductive, PTL
     DEF Spec, ImplementsTaskPool, TP!Spec

-----------------------------------------------------------------------------
(* The events: whoever has read n of them may take n tasks without waiting. *)

\* What FoldFunction(+, 0, f) unfolds to: the sum over s of the numbers f.
One(s) == CHOOSE x \in s : TRUE

Adds(f, g) == g = [s \in SUBSET DOMAIN f |->
                      IF s = {} THEN 0 ELSE f[One(s)] + g[s \ {One(s)}]]

\* The recursion of the sum can be carried out.
LEMMA SumExists ==
  ASSUME NEW D, IsFiniteSet(D), NEW f, DOMAIN f = D
  PROVE  \E g : Adds(f, g)
<1> DEFINE Small(n) == {s \in SUBSET D : Cardinality(s) <= n}
<1> DEFINE Sum(n, g) == \A s \in Small(n) :
              g[s] = IF s = {} THEN 0 ELSE f[One(s)] + g[s \ {One(s)}]
<1> DEFINE S == {n \in Nat : \E g : Sum(n, g)}
<1>0. \A s \in SUBSET D : /\ IsFiniteSet(s) /\ Cardinality(s) \in Nat
                          /\ Cardinality(s) <= Cardinality(D)
                          /\ Cardinality(s) = 0 <=> s = {}
                          /\ s # {} => /\ One(s) \in s
                                       /\ Cardinality(s \ {One(s)}) = Cardinality(s) - 1
  BY FS_Subset, FS_CardinalityType, FS_EmptySet, FS_RemoveElement DEF One
<1>a. \A n \in Nat : {} \in Small(n)
  BY FS_EmptySet
<1>1. 0 \in S
  <2> DEFINE g == [s \in {{}} |-> 0]
  <2>1. ASSUME NEW s \in SUBSET D, Cardinality(s) <= 0 PROVE s = {}
    <3>1. Cardinality(s) \in Nat /\ (Cardinality(s) = 0 <=> s = {})
      BY FS_Subset, FS_CardinalityType, FS_EmptySet
    <3> QED
      BY <2>1, <3>1
  <2>2. Sum(0, g)
    BY <2>1
  <2> HIDE DEF g
  <2> QED
    BY <2>2
<1>2. ASSUME NEW n \in Nat, n \in S PROVE n + 1 \in S
  <2>1. PICK g : Sum(n, g)
    BY <1>2
  <2> DEFINE h == [s \in SUBSET D |-> IF s \in Small(n) THEN g[s]
                                      ELSE f[One(s)] + g[s \ {One(s)}]]
  <2>2. ASSUME NEW s \in Small(n + 1)
        PROVE  h[s] = IF s = {} THEN 0 ELSE f[One(s)] + h[s \ {One(s)}]
    <3>1. s # {} => s \ {One(s)} \in Small(n) /\ s \ {One(s)} \in SUBSET D
      BY <1>0
    <3>2. CASE s \in Small(n)
      BY <2>1, <3>1, <3>2
    <3>3. CASE s \notin Small(n)
      <4>1. s # {}
        BY <1>a, <3>3
      <4>2. h[s] = f[One(s)] + g[s \ {One(s)}] /\ h[s \ {One(s)}] = g[s \ {One(s)}]
        BY <3>1, <3>3, <4>1
      <4> QED
        BY <4>1, <4>2
    <3> QED
      BY <3>2, <3>3
  <2>3. Sum(n + 1, h)
    BY <2>2
  <2> HIDE DEF h, Sum
  <2> QED
    BY <2>3
<1> HIDE DEF S
<1>3. Nat \subseteq S
  BY <1>1, <1>2, NumberInduction
<1> USE DEF S
<1>4. PICK g : Sum(Cardinality(D), g)
  BY <1>3, FS_CardinalityType
<1> DEFINE h == [s \in SUBSET D |-> g[s]]
<1>5. ASSUME NEW s \in SUBSET D
      PROVE  h[s] = IF s = {} THEN 0 ELSE f[One(s)] + h[s \ {One(s)}]
  <2>1. s \in Small(Cardinality(D)) /\ (s \ {One(s)}) \in SUBSET D
    BY <1>0
  <2> QED
    BY <1>4, <2>1
<1>6. h = [s \in SUBSET D |-> IF s = {} THEN 0 ELSE f[One(s)] + h[s \ {One(s)}]]
  BY <1>5
<1> HIDE DEF h
<1> QED
  BY <1>6 DEF Adds

-----------------------------------------------------------------------------
\* eventfd_read() by several clients adds up.
Total(f) == FoldFunction(+, 0, f)

\* Changing one number changes the total by the difference.
LEMMA TotalChanges ==
  ASSUME NEW D, IsFiniteSet(D), NEW f \in [D -> Nat], NEW c \in D, NEW v \in Nat
  PROVE  Total(f) \in Nat /\ Total([f EXCEPT ![c] = v]) = Total(f) + v - f[c]
<1> DEFINE e == [f EXCEPT ![c] = v]
<1>1. DOMAIN f = D /\ DOMAIN e = D
  OBVIOUS
<1> HIDE DEF e
<1>2. PICK g : /\ Total(f) = g[D]
               /\ \A s \in SUBSET D :
                     g[s] = IF s = {} THEN 0 ELSE f[One(s)] + g[s \ {One(s)}]
  <2>1. Total(f) = (CHOOSE s : Adds(f, s))[D]
    BY <1>1 DEF Total, Adds, One, FoldFunction, FoldFunctionOnSet, MapThenFoldSet
  <2>2. PICK g : Adds(f, g) /\ Total(f) = g[D]
    BY <1>1, <2>1, SumExists
  <2> QED
    BY <1>1, <2>2 DEF Adds
<1>3. PICK h : /\ Total(e) = h[D]
               /\ \A s \in SUBSET D :
                     h[s] = IF s = {} THEN 0 ELSE e[One(s)] + h[s \ {One(s)}]
  <2>1. Total(e) = (CHOOSE s : Adds(e, s))[D]
    BY <1>1 DEF Total, Adds, One, FoldFunction, FoldFunctionOnSet, MapThenFoldSet
  <2>2. PICK h : Adds(e, h) /\ Total(e) = h[D]
    BY <1>1, <2>1, SumExists
  <2> QED
    BY <1>1, <2>2 DEF Adds
<1>4. e = [f EXCEPT ![c] = v]
  BY DEF e
<1>5. g[D] \in Nat /\ h[D] = g[D] + v - f[c]
  <2> DEFINE Wrong == {s \in SUBSET D :
                ~(g[s] \in Nat /\ h[s] = g[s] + IF c \in s THEN v - f[c] ELSE 0)}
  <2>1. SUFFICES ASSUME Wrong # {} PROVE FALSE
    OBVIOUS
  <2>2. PICK s \in Wrong : \A t \in Wrong : t \subseteq s => t = s
    <3>1. Wrong \in SUBSET SUBSET D
      OBVIOUS
    <3> HIDE DEF Wrong
    <3> QED
      BY <2>1, <3>1, SmallestSet
  <2> DEFINE x == One(s)
  <2>3. /\ g[s] = IF s = {} THEN 0 ELSE f[x] + g[s \ {x}]
        /\ h[s] = IF s = {} THEN 0 ELSE e[x] + h[s \ {x}]
    BY <1>2, <1>3, <2>2
  <2>4. s # {}
    BY <2>2, <2>3
  <2>5. x \in s
    BY <2>4 DEF One
  <2>6. s \ {x} \notin Wrong /\ s \ {x} \in SUBSET D
    BY <2>2, <2>5
  <2> HIDE DEF x
  <2>7. CASE x = c
    <3>1. g[s \ {x}] \in Nat /\ h[s \ {x}] = g[s \ {x}]
      BY <2>6, <2>7
    <3>2. g[s] = f[c] + g[s \ {x}] /\ h[s] = v + h[s \ {x}]
      BY <1>4, <2>3, <2>4, <2>7
    <3>3. f[c] \in Nat /\ c \in s
      BY <2>5, <2>7
    <3>4. g[s] \in Nat /\ h[s] = g[s] + (v - f[c])
      BY <3>1, <3>2, <3>3
    <3> QED
      BY <2>2, <3>3, <3>4
  <2>8. CASE x # c
    <3>1. g[s] = f[x] + g[s \ {x}] /\ h[s] = f[x] + h[s \ {x}] /\ f[x] \in Nat
      BY <1>4, <2>2, <2>3, <2>4, <2>5, <2>8
    <3>2. c \in s <=> c \in s \ {x}
      BY <2>8
    <3>3. f[c] \in Nat
      OBVIOUS
    <3>4. g[s \ {x}] \in Nat /\ h[s \ {x}] = g[s \ {x}] + IF c \in s THEN v - f[c] ELSE 0
      BY <2>6, <3>2
    <3>5. g[s] \in Nat /\ h[s] = g[s] + IF c \in s THEN v - f[c] ELSE 0
      BY <3>1, <3>3, <3>4
    <3> QED
      BY <2>2, <3>5
  <2> QED
    BY <2>7, <2>8
<1> QED
  BY ONLY <1>2, <1>3, <1>4, <1>5

\* Nothing adds up to nothing.
LEMMA TotalZero ==
  ASSUME NEW D, IsFiniteSet(D)
  PROVE  Total([c \in D |-> 0]) = 0
<1> DEFINE f == [c \in D |-> 0]
<1>1. DOMAIN f = D /\ \A c \in D : f[c] = 0
  OBVIOUS
<1> HIDE DEF f
<1>2. PICK g : Adds(f, g) /\ Total(f) = g[D]
  <2>1. Total(f) = (CHOOSE s : Adds(f, s))[D]
    BY <1>1 DEF Total, Adds, One, FoldFunction, FoldFunctionOnSet, MapThenFoldSet
  <2> QED
    BY <1>1, <2>1, SumExists
<1> DEFINE Wrong == {s \in SUBSET D : g[s] # 0}
<1>3. SUFFICES ASSUME Wrong # {} PROVE FALSE
  BY <1>2 DEF f
<1>4. PICK s \in Wrong : \A t \in Wrong : t \subseteq s => t = s
  <2>1. Wrong \in SUBSET SUBSET D
    OBVIOUS
  <2> HIDE DEF Wrong
  <2> QED
    BY <1>3, <2>1, SmallestSet
<1>5. s # {} /\ g[s] = f[One(s)] + g[s \ {One(s)}]
  BY <1>1, <1>2, <1>4 DEF Adds
<1>6. One(s) \in s
  BY <1>5 DEF One
<1>7. g[s \ {One(s)}] = 0 /\ f[One(s)] = 0
  BY <1>1, <1>4, <1>6
<1> QED
  BY <1>4, <1>5, <1>7

-----------------------------------------------------------------------------
\* The clients that have used up an event, and the workers that have posted a
\* completed task and not announced it yet.
Waiters == {c \in Clients : At(c, "take_wait")}
Announcing == {w \in Workers : pc[w] \in {"insert_out", "event"}}

\* The inductive form of EventBacked: the events that are about to be written to
\* a live pool have their tokens too.
Backed ==
    "direct_take" \notin Ops /\ SemMax >= Cardinality(AllTasks) =>
        event_fd + Total(due) + Cardinality(Waiters)
            + (IF pool = "live" THEN Cardinality(Announcing) ELSE 0)
        <= sem_queue_out

\* Clients are finitely many.
LEMMA ClientsFinite == IsFiniteSet(Clients)
BY ThreadsAssumption, FS_Subset DEF Agents

\* Numbers of threads are natural numbers.
LEMMA CrowdsNat ==
  /\ IsFiniteSet(Waiters) /\ Cardinality(Waiters) \in Nat
  /\ IsFiniteSet(Announcing) /\ Cardinality(Announcing) \in Nat
BY ThreadsAssumption, FS_Subset, FS_CardinalityType DEF Waiters, Announcing, Agents

\* The events read and not used are counted by a natural number.
LEMMA DueNat == TypeOK => Total(due) \in Nat
<1> SUFFICES ASSUME TypeOK PROVE Total(due) \in Nat
  OBVIOUS
<1>1. due \in [Clients -> Nat] /\ Creator \in Clients /\ 0 \in Nat
  BY ThreadsAssumption DEF TypeOK
<1> QED
  BY ONLY <1>1, ClientsFinite, TotalChanges

\* A step that leaves events and completed tasks alone.
LEMMA BackedFrame ==
  ASSUME Backed, pool' = "live" => pool = "live",
         UNCHANGED <<event_fd, due, sem_queue_out, Waiters, Announcing>>, TypeOK
  PROVE  Backed'
BY CrowdsNat, DueNat DEF Backed, TypeOK

\* A worker posts before it announces, and a client uses up an event before it
\* waits for the token.
LEMMA BackedStep ==
  ASSUME UnlocksOwnMutex, IsFiniteSet(AllTasks)
  PROVE  TInv /\ Backed /\ [Next]_vars => Backed'
<1> SUFFICES ASSUME TInv, Backed, [Next]_vars PROVE Backed'
  OBVIOUS
<1>0. TypeInv /\ Startup /\ LocksHeld /\ OutTokens /\ Placed /\ Total(due) \in Nat
  BY DueNat DEF TInv, LInv, IInv, TypeInv
<1> USE <1>0, ThreadsAssumption, BackedFrame DEF TypeInv, Waiters, Announcing, ClientPcs, WorkerPcs, Leaving
<1> USE DEF TypeOK, Agents, At, Goto, Acquire, Release
<1> USE DEF handVars, queueVars, semVars, threadVars, eventVars, taskVars
<1>1. CASE UNCHANGED vars
  BY <1>1 DEF vars
<1>2. ASSUME NEW a \in Agents, AddTask(a) PROVE Backed'
  BY <1>2 DEF AddTask, MayCall
<1>3. ASSUME NEW a \in Agents, RemoveThread(a) PROVE Backed'
  BY <1>3 DEF RemoveThread, MayCall
<1>4. ASSUME NEW a \in Agents, AddThread(a) PROVE Backed'
  BY <1>4 DEF AddThread, MayCall, Create
<1>5. ASSUME NEW a \in Agents, TasksQueued(a) PROVE Backed'
  BY <1>5 DEF TasksQueued, MayCall
<1>6. ASSUME NEW a \in Agents, EventRead(a) PROVE Backed'
  <2>1. /\ a \in Clients /\ event_fd' = 0
        /\ due' = [due EXCEPT ![a] = due[a] + event_fd]
        /\ UNCHANGED <<pc, sem_queue_out, pool>>
    BY ONLY <1>6, OpsAssumption, SMTT(60) DEF EventRead, MayCall, semVars
  <2>2. due \in [Clients -> Nat] /\ event_fd \in Nat /\ due[a] + event_fd \in Nat
    BY <2>1
  <2>3. Total(due) \in Nat /\ Total(due') = Total(due) + (due[a] + event_fd) - due[a]
    BY ONLY <2>1, <2>2, ClientsFinite, TotalChanges
  <2>4. Waiters' = Waiters /\ Announcing' = Announcing
    BY ONLY <2>1 DEF Waiters, Announcing, At
  <2> QED
    BY ONLY Backed, <2>1, <2>2, <2>3, <2>4, CrowdsNat DEF Backed
<1>7. ASSUME NEW a \in Agents, Take(a) PROVE Backed'
  <2>1. /\ a \in Clients /\ pc[a] = "idle" /\ pc' = [pc EXCEPT ![a] = "take_wait"]
        /\ due[a] > 0 /\ due' = [due EXCEPT ![a] = due[a] - 1]
        /\ UNCHANGED <<event_fd, sem_queue_out, pool>>
    BY ONLY <1>7, OpsAssumption, SMTT(60) DEF Take, MayCall, At, Goto, semVars
  <2>2. due \in [Clients -> Nat] /\ event_fd \in Nat /\ due[a] - 1 \in Nat
    BY <2>1
  <2>3. Total(due) \in Nat /\ Total(due') = Total(due) + (due[a] - 1) - due[a]
    BY ONLY <2>1, <2>2, ClientsFinite, TotalChanges
  <2>4. a \notin Waiters /\ Waiters' = Waiters \cup {a} /\ Announcing' = Announcing
    BY <2>1 DEF Waiters, Announcing
  <2> HIDE DEF Waiters, Announcing
  <2>5. Cardinality(Waiters)' = Cardinality(Waiters) + 1
    BY ONLY <2>4, CrowdsNat, Enter
  <2>6. due[a] \in Nat
    BY <2>1
  <2> QED
    BY ONLY Backed, <2>1, <2>2, <2>3, <2>4, <2>5, <2>6, CrowdsNat DEF Backed
<1>8. ASSUME NEW a \in Agents, DirectTake(a) PROVE Backed'
  BY <1>8, OpsAssumption DEF DirectTake, MayCall, Backed
<1>9. ASSUME NEW a \in Agents, Destroy(a) PROVE Backed'
  BY <1>9 DEF Destroy, MayCall
<1>10. ASSUME NEW a \in Agents, AddLock(a) PROVE Backed'
  BY <1>10 DEF AddLock, Lock
<1>11. ASSUME NEW a \in Agents, AddPost(a) PROVE Backed'
  BY <1>11 DEF AddPost
<1>12. ASSUME NEW a \in Agents, AddPostFails(a) PROVE Backed'
  BY <1>12 DEF AddPostFails, Back
<1>13. ASSUME NEW a \in Agents, AddInsert(a) PROVE Backed'
  BY <1>13 DEF AddInsert, Back
<1>14. ASSUME NEW a \in Agents, RegLock(a) PROVE Backed'
  BY <1>14 DEF RegLock, Lock
<1>15. ASSUME NEW a \in Agents, RegInsert(a) PROVE Backed'
  BY <1>15 DEF RegInsert, Back
<1>16. ASSUME NEW a \in Agents, RegInsertFails(a) PROVE Backed'
  BY <1>16 DEF RegInsertFails
<1>17. ASSUME NEW a \in Agents, RegCancel(a) PROVE Backed'
  BY <1>17 DEF RegCancel, Cancel
<1>18. ASSUME NEW a \in Agents, RegJoin(a) PROVE Backed'
  BY <1>18 DEF RegJoin, Back, Join
<1>19. ASSUME NEW a \in Agents, InitThread(a) PROVE Backed'
  BY <1>19 DEF InitThread, Create
<1>20. ASSUME NEW a \in Agents, InitThreadFails(a) PROVE Backed'
  BY <1>20 DEF InitThreadFails, Startup
<1>21. ASSUME NEW a \in Agents, InitDone(a) PROVE Backed'
  <2>1. pool = "init" /\ Announcing = {} /\ Announcing' = {} /\ Waiters' = Waiters
    BY <1>21 DEF Startup, InitDone, Waiters, Announcing
  <2>2. UNCHANGED <<event_fd, due, sem_queue_out>>
    BY <1>21 DEF InitDone
  <2> QED
    BY ONLY Backed, <2>1, <2>2, FS_EmptySet, CrowdsNat, TypeOK, <1>0 DEF Backed, TypeOK
<1>22. ASSUME NEW a \in Agents, TakeWait(a) PROVE Backed'
  <2>1. /\ a \in Waiters /\ Waiters' = Waiters \ {a} /\ Announcing' = Announcing
        /\ sem_queue_out' = sem_queue_out - 1
        /\ UNCHANGED <<event_fd, due, pool>>
    BY <1>22 DEF TakeWait, Waiters, Announcing
  <2> HIDE DEF Waiters, Announcing
  <2>2. Cardinality(Waiters)' = Cardinality(Waiters) - 1
    BY ONLY <2>1, CrowdsNat, Exit
  <2>3. sem_queue_out \in Nat /\ event_fd \in Nat
    OBVIOUS
  <2> QED
    BY ONLY Backed, <2>1, <2>2, <2>3, CrowdsNat, <1>0 DEF Backed
<1>23. ASSUME NEW a \in Agents, TakeLock(a) PROVE Backed'
  BY <1>23 DEF TakeLock, Lock
<1>24. ASSUME NEW a \in Agents, TakeOut(a) PROVE Backed'
  BY <1>24 DEF TakeOut, Back
<1>25. ASSUME NEW a \in Agents, TqLock(a) PROVE Backed'
  BY <1>25 DEF TqLock, Lock
<1>26. ASSUME NEW a \in Agents, TqRead(a) PROVE Backed'
  BY <1>26 DEF TqRead, Back
<1>27. ASSUME NEW a \in Agents, DestroySem(a) PROVE Backed'
  BY <1>27 DEF DestroySem, WaitExit
<1>28. ASSUME NEW a \in Agents, DestroyLock(a) PROVE Backed'
  BY <1>28 DEF DestroyLock, Lock
<1>29. ASSUME NEW a \in Agents, Clear(a) PROVE Backed'
  BY <1>29 DEF Clear, Cancel
<1>30. ASSUME NEW a \in Agents, ClearJoin(a) PROVE Backed'
  BY <1>30 DEF ClearJoin, Join
<1>31. ASSUME NEW a \in Agents, ClearDone(a) PROVE Backed'
  BY <1>31 DEF ClearDone
<1>32. ASSUME NEW a \in Agents, AbortDone(a) PROVE Backed'
  BY <1>32 DEF AbortDone
<1>33. ASSUME NEW a \in Agents, DestroyPost(a) PROVE Backed'
  BY <1>33 DEF DestroyPost, PostExit
<1>34. ASSUME NEW a \in Agents, DestroyFree(a) PROVE Backed'
  BY <1>34 DEF DestroyFree, Startup
<1>35. ASSUME NEW w \in Workers, WaitIn(w) PROVE Backed'
  BY <1>35 DEF WaitIn
<1>36. ASSUME NEW w \in Workers, LockIn(w) PROVE Backed'
  BY <1>36 DEF LockIn, Lock
<1>37. ASSUME NEW w \in Workers, TakeIn(w) PROVE Backed'
  BY <1>37 DEF TakeIn
<1>38. ASSUME NEW w \in Workers, RunTask(w) PROVE Backed'
  BY <1>38 DEF RunTask
<1>39. ASSUME NEW w \in Workers, LockOut(w) PROVE Backed'
  BY <1>39 DEF LockOut, Lock
<1>40. ASSUME NEW w \in Workers, PostOut(w) PROVE Backed'
  <2>1. /\ w \notin Announcing /\ Announcing' = Announcing \cup {w} /\ Waiters' = Waiters
        /\ sem_queue_out' = sem_queue_out + 1
        /\ UNCHANGED <<event_fd, due, pool>>
    BY <1>40 DEF PostOut, Waiters, Announcing
  <2> HIDE DEF Waiters, Announcing
  <2>2. Cardinality(Announcing)' = Cardinality(Announcing) + 1
    BY ONLY <2>1, CrowdsNat, Enter
  <2>3. sem_queue_out \in Nat /\ event_fd \in Nat
    OBVIOUS
  <2> QED
    BY ONLY Backed, <2>1, <2>2, <2>3, CrowdsNat, <1>0 DEF Backed
<1>41. ASSUME NEW w \in Workers, PostOutFails(w) PROVE Backed'
  <2>1. pool = "live" /\ SemMax >= Cardinality(AllTasks) => FALSE
    BY <1>41, RoomOut, LimitsAssumption DEF PostOutFails
  <2>2. Waiters' = Waiters /\ UNCHANGED <<event_fd, due, pool, sem_queue_out>>
    BY <1>41 DEF PostOutFails, Waiters
  <2> QED
    BY ONLY Backed, <2>1, <2>2 DEF Backed
<1>42. ASSUME NEW w \in Workers, InsertOut(w) PROVE Backed'
  BY <1>42 DEF InsertOut
<1>43. ASSUME NEW w \in Workers, Event(w) PROVE Backed'
  <2>1. /\ w \in Announcing /\ Announcing' = Announcing \ {w} /\ Waiters' = Waiters
        /\ event_fd' = IF pool = "live" THEN event_fd + 1 ELSE event_fd
        /\ UNCHANGED <<sem_queue_out, due, pool>>
    BY <1>43 DEF Event, Waiters, Announcing
  <2> HIDE DEF Waiters, Announcing
  <2>2. Cardinality(Announcing)' = Cardinality(Announcing) - 1
    BY ONLY <2>1, CrowdsNat, Exit
  <2>3. sem_queue_out \in Nat /\ event_fd \in Nat
    OBVIOUS
  <2> QED
    BY ONLY Backed, <2>1, <2>2, <2>3, CrowdsNat, <1>0 DEF Backed
<1>44. ASSUME NEW w \in Workers, Die(w) PROVE Backed'
  <2>1. /\ Announcing' = Announcing \ {w} /\ Waiters' = Waiters
        /\ UNCHANGED <<event_fd, sem_queue_out, due, pool>>
    BY <1>44 DEF Die, Waiters, Announcing
  <2> HIDE DEF Waiters, Announcing
  <2>2. Cardinality(Announcing)' <= Cardinality(Announcing) /\ Cardinality(Announcing)' \in Nat
    <3>1. IsFiniteSet(Announcing) /\ Announcing \ {w} \subseteq Announcing
      BY CrowdsNat
    <3>2. Cardinality(Announcing \ {w}) <= Cardinality(Announcing)
      BY ONLY <3>1, FS_Subset
    <3>3. Cardinality(Announcing \ {w}) \in Nat
      BY ONLY <3>1, FS_Subset, FS_CardinalityType
    <3> QED
      BY ONLY <2>1, <3>2, <3>3
  <2>3. sem_queue_out \in Nat /\ event_fd \in Nat
    OBVIOUS
  <2> QED
    BY ONLY Backed, <2>1, <2>2, <2>3, CrowdsNat, <1>0 DEF Backed
<1>45. ASSUME NEW w \in Workers, RunExit(w) PROVE Backed'
  BY <1>45 DEF RunExit
<1>46. ASSUME NEW w \in Workers, ExitSem(w) PROVE Backed'
  BY <1>46 DEF ExitSem, WaitExit
<1>47. ASSUME NEW w \in Workers, ExitLock(w) PROVE Backed'
  BY <1>47 DEF ExitLock, Lock
<1>48. ASSUME NEW w \in Workers, ExitTake(w) PROVE Backed'
  BY <1>48 DEF ExitTake
<1>49. ASSUME NEW w \in Workers, ExitPost(w) PROVE Backed'
  BY <1>49 DEF ExitPost, PostExit
<1>50. ASSUME NEW w \in Workers, Leave(w) PROVE Backed'
  BY <1>50 DEF Leave
<1> QED
BY ONLY [Next]_vars, <1>1, <1>2, <1>3, <1>4, <1>5, <1>6, <1>7, <1>8, <1>9,
     <1>10, <1>11, <1>12, <1>13, <1>14, <1>15, <1>16, <1>17, <1>18, <1>19,
     <1>20, <1>21, <1>22, <1>23, <1>24, <1>25, <1>26, <1>27, <1>28, <1>29,
     <1>30, <1>31, <1>32, <1>33, <1>34, <1>35, <1>36, <1>37, <1>38, <1>39,
     <1>40, <1>41, <1>42, <1>43, <1>44, <1>45, <1>46, <1>47, <1>48, <1>49,
     <1>50
     DEF Next, Call, Continue, Work

\* The invariant holds of the pool threadpool_init() starts from.
LEMMA BackedInit == Init => Backed
<1> SUFFICES ASSUME Init PROVE Backed
  OBVIOUS
<1>1. Waiters = {}
  BY ThreadsAssumption DEF Init, Waiters, At, Agents
<1>2. Total(due) = 0
  BY TotalZero, ClientsFinite DEF Init
<1> QED
  BY <1>1, <1>2, FS_EmptySet DEF Init, Backed

\* A client that has read events from the eventfd, and takes one task for each of
\* them, never waits for a task: the events never outnumber the tokens
\* (threadpool_event_fd(), threadpool_take_completed_task()).
THEOREM EventsNeverOutnumberTasks ==
  ASSUME UnlocksOwnMutex, IsFiniteSet(AllTasks) PROVE Spec => []EventBacked
<1>1. TInv /\ Backed => EventBacked
  <2> SUFFICES ASSUME TInv, Backed PROVE EventBacked
    OBVIOUS
  <2>1. TypeOK
    BY DEF TInv, LInv, IInv, TypeInv
  <2>2. event_fd \in Nat /\ sem_queue_out \in Nat /\ Total(due) \in Nat
    BY <2>1, DueNat DEF TypeOK
  <2>3. EventBacked <=> ("direct_take" \notin Ops /\ SemMax >= Cardinality(AllTasks) =>
          event_fd + Total(due) + Cardinality(Waiters) <= sem_queue_out)
    BY DEF EventBacked, Waiters, Total
  <2> QED
    BY <2>2, <2>3, CrowdsNat DEF Backed
<1>2. Spec => [](TInv /\ Backed)
  <2>1. Init => TInv /\ Backed
    BY TasksInit, InitInv, LivesInit, BackedInit DEF TInv, LInv
  <2> QED
    BY <2>1, TasksStep, BackedStep, PTL DEF Spec
<1> QED
  BY <1>1, <1>2, PTL
=============================================================================
