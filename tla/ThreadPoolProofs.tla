-------------------------- MODULE ThreadPoolProofs --------------------------
(***************************************************************************)
(* What holds of ThreadPool for any number of threads, clients and tasks.  *)
(* The inductive invariant IInv adds to the stated properties what each    *)
(* thread carries at each step (PcData) and what cannot have happened yet  *)
(* while the pool is being created (Startup).  The second half is about    *)
(* the lives of the threads: who joins or detaches each of them, that no   *)
(* handle is used twice, and that the pool's memory is given up only when  *)
(* no thread works on it.                                                  *)
(***************************************************************************)
EXTENDS ThreadPool, FiniteSetTheorems, TLAPS

\* A thread that adds a task, creates a thread or completes a task has one in
\* hand; threadpool_tasks_queued() runs only where it is called.
PcData ==
    /\ \A a \in Agents :
        /\ pc[a] \in {"add_lock", "add_post", "add_insert"} => arg[a] \in AllTasks
        /\ pc[a] \in {"reg_lock", "reg_insert", "reg_cancel", "reg_join",
                     "clear_join"} => target[a] \in Workers
        /\ pc[a] \in {"tq_lock", "tq_read"} => ~UnlocksOwnMutex
    /\ \A w \in Workers :
        pc[w] \in {"lock_out", "post_out", "insert_out"} => job[w] \in AllTasks

\* The part of the invariant that is about single threads.
TypeInv == TypeOK /\ PcData

\* threadpool_init() works alone: the threads it starts find no token to take,
\* so initialising the queues after starting the threads loses nothing.
Startup ==
    /\ \A c \in Clients : pc[c] = "init" => pool = "init"
    /\ pool \in {"init", "aborting"} =>
        /\ task_queue_in = <<>> /\ task_queue_out = <<>>
        /\ sem_queue_in = 0
        /\ \A w \in Workers : pc[w] \in {"none", "wait_in"}
        /\ \A c \in Clients \ {Creator} : pc[c] = "idle"
        /\ pc[Creator] \in (IF pool = "init"
                            THEN {"init", "reg_lock", "reg_insert", "reg_cancel", "reg_join"}
                            ELSE {"clear", "clear_join"})

\* The ends of a queue of elements of S are in S.
LEMMA QueueEnds ==
  ASSUME NEW S, NEW s \in Seq(S)
  PROVE  /\ \A t \in S : Append(s, t) \in Seq(S)
         /\ s # <<>> => Head(s) \in S /\ Tail(s) \in Seq(S)
  OBVIOUS

\* Every step keeps the types.
LEMMA TypeInvStep == TypeInv /\ Startup /\ [Next]_vars => TypeInv'
<1> SUFFICES ASSUME TypeInv /\ Startup, [Next]_vars PROVE TypeInv'
  OBVIOUS
<1> USE ThreadsAssumption DEF TypeInv, TypeOK, PcData, Agents, AllTasks, UnlocksOwnMutex
<1> USE DEF ClientPcs, WorkerPcs, Leaving, At, Goto, Acquire, Release
<1> USE DEF handVars, queueVars, semVars, threadVars, eventVars, taskVars
<1>1. CASE UNCHANGED vars
  BY <1>1 DEF vars
<1>2. ASSUME NEW a \in Agents, AddTask(a) PROVE TypeInv'
  BY <1>2, OpsAssumption DEF AddTask, MayCall
<1>3. ASSUME NEW a \in Agents, RemoveThread(a) PROVE TypeInv'
  BY <1>3, OpsAssumption DEF RemoveThread, MayCall
<1>4. ASSUME NEW a \in Agents, AddThread(a) PROVE TypeInv'
  <2>1. PICK w \in Workers : Create(a, w)
    BY <1>4 DEF AddThread, MayCall, Create
  <2>2. a # w
    BY <1>4, <2>1, OpsAssumption DEF AddThread, MayCall, Create
  <2>3. pc' \in [Agents -> ClientPcs \cup WorkerPcs]
    BY <2>1 DEF Create
  <2>4. /\ \A c \in Clients : pc'[c] \in ClientPcs
        /\ \A v \in Workers : pc'[v] \in WorkerPcs
    BY <2>1 DEF Create
  <2>7. TypeOK'
    BY <2>1, <2>3, <2>4 DEF Create
  <2>8. PcData'
    BY <2>1, <2>2 DEF Create
  <2> QED
    BY <2>7, <2>8
<1>5. ASSUME NEW a \in Agents, TasksQueued(a) PROVE TypeInv'
  BY <1>5, OpsAssumption DEF TasksQueued, MayCall
<1>6. ASSUME NEW a \in Agents, EventRead(a) PROVE TypeInv'
  <2>1. a \in Clients
    BY <1>6, OpsAssumption, ZenonT(60) DEF EventRead, MayCall
  <2>2. due' \in [Clients -> Nat] /\ event_fd' \in Nat
    BY <1>6, <2>1 DEF EventRead, MayCall
  <2>7. TypeOK'
    BY <1>6, <2>1, <2>2 DEF EventRead, MayCall
  <2>8. PcData'
    BY <1>6, <2>1 DEF EventRead, MayCall
  <2> QED
    BY <2>7, <2>8
<1>7. ASSUME NEW a \in Agents, Take(a) PROVE TypeInv'
  <2>1. a \in Clients
    BY <1>7, OpsAssumption, ZenonT(60) DEF Take, MayCall
  <2>2. due' \in [Clients -> Nat] /\ event_fd' \in Nat
    BY <1>7, <2>1 DEF Take, MayCall
  <2>7. TypeOK'
    BY <1>7, <2>1, <2>2 DEF Take, MayCall
  <2>8. PcData'
    BY <1>7, <2>1 DEF Take, MayCall
  <2> QED
    BY <2>7, <2>8
<1>8. ASSUME NEW a \in Agents, DirectTake(a) PROVE TypeInv'
  <2>1. a \in Clients
    BY <1>8, OpsAssumption, ZenonT(60) DEF DirectTake, MayCall
  <2>7. TypeOK'
    BY <1>8, <2>1 DEF DirectTake, MayCall
  <2>8. PcData'
    BY <1>8, <2>1 DEF DirectTake, MayCall
  <2> QED
    BY <2>7, <2>8
<1>9. ASSUME NEW a \in Agents, Destroy(a) PROVE TypeInv'
  BY <1>9, OpsAssumption DEF Destroy, MayCall
<1>10. ASSUME NEW a \in Agents, AddLock(a) PROVE TypeInv'
  BY <1>10 DEF AddLock, Lock
<1>11. ASSUME NEW a \in Agents, AddPost(a) PROVE TypeInv'
  BY <1>11 DEF AddPost
<1>12. ASSUME NEW a \in Agents, AddPostFails(a) PROVE TypeInv'
  BY <1>12 DEF AddPostFails, Back
<1>13. ASSUME NEW a \in Agents, AddInsert(a) PROVE TypeInv'
  BY <1>13 DEF AddInsert, Back
<1>14. ASSUME NEW a \in Agents, RegLock(a) PROVE TypeInv'
  BY <1>14 DEF RegLock, Lock
<1>15. ASSUME NEW a \in Agents, RegInsert(a) PROVE TypeInv'
  BY <1>15 DEF RegInsert, Back
<1>16. ASSUME NEW a \in Agents, RegInsertFails(a) PROVE TypeInv'
  BY <1>16 DEF RegInsertFails
<1>17. ASSUME NEW a \in Agents, RegCancel(a) PROVE TypeInv'
  BY <1>17 DEF RegCancel, Cancel
<1>18. ASSUME NEW a \in Agents, RegJoin(a) PROVE TypeInv'
  <2>1. /\ thread' \in [Workers -> {"free", "live", "exited"}]
        /\ target' \in [Agents -> Workers \cup {None}]
    BY <1>18 DEF RegJoin, Back, Join
  <2>2. pool = "init" => a = Creator
    BY <1>18 DEF RegJoin, Back, Join, Startup
  <2>9. pc' = [pc EXCEPT ![a] = IF pool = "init" THEN "clear" ELSE Back(a)]
    BY ONLY RegJoin(a) DEF RegJoin, Back, Join, Goto
  <2>3. /\ pc' \in [Agents -> ClientPcs \cup WorkerPcs]
        /\ \A c \in Clients : pc'[c] \in ClientPcs
        /\ \A v \in Workers : pc'[v] \in WorkerPcs
    BY ONLY TypeOK, ThreadsAssumption, <2>2, <2>9, a \in Agents, RegJoin(a)
       DEF TypeOK, Agents, RegJoin, Back, Join, At, ClientPcs, WorkerPcs, Leaving
  <2>4. PcData'
    BY <1>18, <2>2 DEF RegJoin, Back, Join
  <2>5. pool' \in {"init", "live", "closing", "aborting", "freed"}
    BY <1>18 DEF RegJoin, Back, Join
  <2> QED
    BY <1>18, <2>1, <2>3, <2>4, <2>5 DEF RegJoin, Back, Join
<1>19. ASSUME NEW a \in Agents, InitThread(a) PROVE TypeInv'
  <2>1. PICK w \in Workers : Create(a, w)
    BY <1>19 DEF InitThread, Create
  <2>2. a # w
    BY <1>19, <2>1 DEF InitThread, Create
  <2>3. pc' \in [Agents -> ClientPcs \cup WorkerPcs]
    BY <2>1 DEF Create
  <2>4. /\ \A c \in Clients : pc'[c] \in ClientPcs
        /\ \A v \in Workers : pc'[v] \in WorkerPcs
    BY <2>1 DEF Create
  <2>7. TypeOK'
    BY <2>1, <2>3, <2>4 DEF Create
  <2>8. PcData'
    BY <2>1, <2>2 DEF Create
  <2> QED
    BY <2>7, <2>8
<1>20. ASSUME NEW a \in Agents, InitThreadFails(a) PROVE TypeInv'
  BY <1>20 DEF InitThreadFails
<1>21. ASSUME NEW a \in Agents, InitDone(a) PROVE TypeInv'
  BY <1>21 DEF InitDone
<1>22. ASSUME NEW a \in Agents, TakeWait(a) PROVE TypeInv'
  BY <1>22 DEF TakeWait
<1>23. ASSUME NEW a \in Agents, TakeLock(a) PROVE TypeInv'
  BY <1>23 DEF TakeLock, Lock
<1>24. ASSUME NEW a \in Agents, TakeOut(a) PROVE TypeInv'
  <2>1. /\ Tail(task_queue_out) \in Seq(AllTasks)
        /\ Head(task_queue_out) \in AllTasks
    BY ONLY TypeOK, TakeOut(a), QueueEnds DEF TypeOK, TakeOut, Back, Race
  <2>2. task_queue_out' \in Seq(AllTasks)
    BY ONLY TypeOK, TakeOut(a), <2>1 DEF TypeOK, TakeOut, Back, Race
  <2>3. given' \subseteq AllTasks
    BY ONLY TypeOK, TakeOut(a) DEF TypeOK, TakeOut, Back, Race
  <2>4. TypeOK'
    BY <1>24, <2>2, <2>3 DEF TakeOut, Back, Race
  <2>5. PcData'
    BY <1>24 DEF TakeOut, Back, Race
  <2> QED
    BY <2>4, <2>5
<1>25. ASSUME NEW a \in Agents, TqLock(a) PROVE TypeInv'
  BY <1>25 DEF TqLock, Lock
<1>26. ASSUME NEW a \in Agents, TqRead(a) PROVE TypeInv'
  BY <1>26 DEF TqRead, Back
<1>27. ASSUME NEW a \in Agents, DestroySem(a) PROVE TypeInv'
  BY <1>27 DEF DestroySem, WaitExit
<1>28. ASSUME NEW a \in Agents, DestroyLock(a) PROVE TypeInv'
  BY <1>28 DEF DestroyLock, Lock
<1>29. ASSUME NEW a \in Agents, Clear(a) PROVE TypeInv'
  BY <1>29 DEF Clear, Cancel
<1>30. ASSUME NEW a \in Agents, ClearJoin(a) PROVE TypeInv'
  BY <1>30 DEF ClearJoin, Join
<1>31. ASSUME NEW a \in Agents, ClearDone(a) PROVE TypeInv'
  BY <1>31 DEF ClearDone
<1>32. ASSUME NEW a \in Agents, AbortDone(a) PROVE TypeInv'
  BY <1>32 DEF AbortDone
<1>33. ASSUME NEW a \in Agents, DestroyPost(a) PROVE TypeInv'
  BY <1>33 DEF DestroyPost, PostExit
<1>34. ASSUME NEW a \in Agents, DestroyFree(a) PROVE TypeInv'
  BY <1>34 DEF DestroyFree
<1>35. ASSUME NEW w \in Workers, WaitIn(w) PROVE TypeInv'
  BY <1>35 DEF WaitIn
<1>36. ASSUME NEW w \in Workers, LockIn(w) PROVE TypeInv'
  BY <1>36 DEF LockIn, Lock
<1>37. ASSUME NEW w \in Workers, TakeIn(w) PROVE TypeInv'
  BY <1>37 DEF TakeIn
<1>38. ASSUME NEW w \in Workers, RunTask(w) PROVE TypeInv'
  BY <1>38 DEF RunTask
<1>39. ASSUME NEW w \in Workers, LockOut(w) PROVE TypeInv'
  BY <1>39 DEF LockOut, Lock
<1>40. ASSUME NEW w \in Workers, PostOut(w) PROVE TypeInv'
  BY <1>40 DEF PostOut
<1>41. ASSUME NEW w \in Workers, PostOutFails(w) PROVE TypeInv'
  BY <1>41 DEF PostOutFails
<1>42. ASSUME NEW w \in Workers, InsertOut(w) PROVE TypeInv'
  <2>1. Append(task_queue_out, job[w]) \in Seq(AllTasks)
    BY ONLY TypeInv, InsertOut(w), QueueEnds
       DEF TypeInv, TypeOK, PcData, InsertOut, Race, At
  <2>2. task_queue_out' \in Seq(AllTasks)
    BY ONLY TypeOK, InsertOut(w), <2>1 DEF TypeOK, InsertOut, Race
  <2>4. TypeOK'
    BY <1>42, <2>2 DEF InsertOut, Race
  <2>5. PcData'
    BY <1>42 DEF InsertOut, Race
  <2> QED
    BY <2>4, <2>5
<1>43. ASSUME NEW w \in Workers, Event(w) PROVE TypeInv'
  BY <1>43 DEF Event
<1>44. ASSUME NEW w \in Workers, Die(w) PROVE TypeInv'
  BY <1>44 DEF Die
<1>45. ASSUME NEW w \in Workers, RunExit(w) PROVE TypeInv'
  <2>1. CASE w \in canceled
    <3>1. /\ thread' = [thread EXCEPT ![w] = "exited"]
          /\ canceled' = canceled \ {w}
          /\ pc' = [pc EXCEPT ![w] = "none"]
      BY ONLY RunExit(w), <2>1 DEF RunExit, Goto
    <3> QED
      BY <1>45, <3>1 DEF RunExit
  <2>2. CASE w \notin canceled
    <3>1. /\ UNCHANGED <<thread, canceled>>
          /\ pc' = [pc EXCEPT ![w] = "exit_sem"]
      BY ONLY RunExit(w), <2>2 DEF RunExit, Goto
    <3> QED
      BY <1>45, <3>1 DEF RunExit
  <2> QED
    BY <2>1, <2>2
<1>46. ASSUME NEW w \in Workers, ExitSem(w) PROVE TypeInv'
  BY <1>46 DEF ExitSem, WaitExit
<1>47. ASSUME NEW w \in Workers, ExitLock(w) PROVE TypeInv'
  BY <1>47 DEF ExitLock, Lock
<1>48. ASSUME NEW w \in Workers, ExitTake(w) PROVE TypeInv'
  BY <1>48 DEF ExitTake
<1>49. ASSUME NEW w \in Workers, ExitPost(w) PROVE TypeInv'
  <2>1. CASE PostExit(w, "exit_post_own", "leave_own")
    BY <2>1 DEF PostExit
  <2>2. CASE PostExit(w, "exit_post_lost", "leave_lost")
    BY <2>2 DEF PostExit
  <2> QED
    BY <1>49, <2>1, <2>2 DEF ExitPost, PostExit
<1>50. ASSUME NEW w \in Workers, Leave(w) PROVE TypeInv'
  BY <1>50 DEF Leave
<1> QED
BY ONLY [Next]_vars, <1>1, <1>2, <1>3, <1>4, <1>5, <1>6, <1>7, <1>8, <1>9,
     <1>10, <1>11, <1>12, <1>13, <1>14, <1>15, <1>16, <1>17, <1>18, <1>19,
     <1>20, <1>21, <1>22, <1>23, <1>24, <1>25, <1>26, <1>27, <1>28, <1>29,
     <1>30, <1>31, <1>32, <1>33, <1>34, <1>35, <1>36, <1>37, <1>38, <1>39,
     <1>40, <1>41, <1>42, <1>43, <1>44, <1>45, <1>46, <1>47, <1>48, <1>49,
     <1>50
     DEF Next, Call, Continue, Work

\* Nothing but the creator's steps happens to a pool being created.
LEMMA StartupStep == TypeOK /\ Startup /\ [Next]_vars => Startup'
<1> SUFFICES ASSUME TypeOK /\ Startup, [Next]_vars PROVE Startup'
  OBVIOUS
<1> USE ThreadsAssumption DEF TypeOK, Agents, AllTasks, Startup
<1> USE DEF ClientPcs, WorkerPcs, Leaving, At, Goto, Acquire, Release
<1> USE DEF handVars, queueVars, semVars, threadVars, eventVars, taskVars
<1>1. CASE UNCHANGED vars
  BY <1>1 DEF vars
<1>2. ASSUME NEW a \in Agents, AddTask(a) PROVE Startup'
  BY <1>2, OpsAssumption DEF AddTask, MayCall
<1>3. ASSUME NEW a \in Agents, RemoveThread(a) PROVE Startup'
  BY <1>3, OpsAssumption DEF RemoveThread, MayCall
<1>4. ASSUME NEW a \in Agents, AddThread(a) PROVE Startup'
  <2>1. PICK w \in Workers : Create(a, w)
    BY <1>4 DEF AddThread, MayCall, Create
  <2> QED
    BY <1>4, <2>1, OpsAssumption DEF AddThread, MayCall, Create
<1>5. ASSUME NEW a \in Agents, TasksQueued(a) PROVE Startup'
  BY <1>5, OpsAssumption DEF TasksQueued, MayCall
<1>6. ASSUME NEW a \in Agents, EventRead(a) PROVE Startup'
  BY <1>6, OpsAssumption DEF EventRead, MayCall
<1>7. ASSUME NEW a \in Agents, Take(a) PROVE Startup'
  BY <1>7, OpsAssumption DEF Take, MayCall
<1>8. ASSUME NEW a \in Agents, DirectTake(a) PROVE Startup'
  BY <1>8, OpsAssumption DEF DirectTake, MayCall
<1>9. ASSUME NEW a \in Agents, Destroy(a) PROVE Startup'
  BY <1>9, OpsAssumption DEF Destroy, MayCall
<1>10. ASSUME NEW a \in Agents, AddLock(a) PROVE Startup'
  BY <1>10 DEF AddLock, Lock
<1>11. ASSUME NEW a \in Agents, AddPost(a) PROVE Startup'
  BY <1>11 DEF AddPost
<1>12. ASSUME NEW a \in Agents, AddPostFails(a) PROVE Startup'
  BY <1>12 DEF AddPostFails, Back
<1>13. ASSUME NEW a \in Agents, AddInsert(a) PROVE Startup'
  BY <1>13 DEF AddInsert, Back
<1>14. ASSUME NEW a \in Agents, RegLock(a) PROVE Startup'
  BY <1>14 DEF RegLock, Lock
<1>15. ASSUME NEW a \in Agents, RegInsert(a) PROVE Startup'
  BY <1>15 DEF RegInsert, Back
<1>16. ASSUME NEW a \in Agents, RegInsertFails(a) PROVE Startup'
  BY <1>16 DEF RegInsertFails
<1>17. ASSUME NEW a \in Agents, RegCancel(a) PROVE Startup'
  BY <1>17 DEF RegCancel, Cancel
<1>18. ASSUME NEW a \in Agents, RegJoin(a) PROVE Startup'
  <2>9. pc' = [pc EXCEPT ![a] = IF pool = "init" THEN "clear" ELSE Back(a)]
    BY ONLY RegJoin(a) DEF RegJoin, Back, Join, Goto
  <2>1. \A c \in Clients : pc'[c] = "init" => pool' = "init"
    BY ONLY TypeOK, Startup, ThreadsAssumption, <2>9, a \in Agents, RegJoin(a)
       DEF TypeOK, Startup, Agents, RegJoin, Back, Join
  <2>2. CASE pool = "init"
    <3>1. a = Creator
      BY <1>18, <2>2 DEF RegJoin, Back, Join
    <3>2. pc' = [pc EXCEPT ![Creator] = "clear"] /\ pool' = "aborting"
      BY <1>18, <2>2, <3>1 DEF RegJoin, Back, Join
    <3> QED
      BY <1>18, <2>1, <2>2, <3>2 DEF RegJoin, Back, Join
  <2>3. CASE pool = "aborting"
    <3>1. a \notin Clients /\ a \notin Workers
      BY <1>18, <2>3 DEF RegJoin, Back, Join
    <3> QED
      BY <3>1
  <2>4. CASE pool \notin {"init", "aborting"}
    BY <1>18, <2>1, <2>4 DEF RegJoin, Back, Join
  <2> QED
    BY <2>2, <2>3, <2>4
<1>19. ASSUME NEW a \in Agents, InitThread(a) PROVE Startup'
  <2>1. PICK w \in Workers : Create(a, w)
    BY <1>19 DEF InitThread, Create
  <2>2. a = Creator
    BY <1>19 DEF InitThread, Create
  <2> QED
    BY <1>19, <2>1, <2>2 DEF InitThread, Create
<1>20. ASSUME NEW a \in Agents, InitThreadFails(a) PROVE Startup'
  <2>1. a = Creator /\ pool = "init"
    BY <1>20 DEF InitThreadFails
  <2> QED
    BY <1>20, <2>1 DEF InitThreadFails
<1>21. ASSUME NEW a \in Agents, InitDone(a) PROVE Startup'
  BY <1>21 DEF InitDone
<1>22. ASSUME NEW a \in Agents, TakeWait(a) PROVE Startup'
  BY <1>22 DEF TakeWait
<1>23. ASSUME NEW a \in Agents, TakeLock(a) PROVE Startup'
  BY <1>23 DEF TakeLock, Lock
<1>24. ASSUME NEW a \in Agents, TakeOut(a) PROVE Startup'
  BY <1>24 DEF TakeOut, Back, Race
<1>25. ASSUME NEW a \in Agents, TqLock(a) PROVE Startup'
  BY <1>25 DEF TqLock, Lock
<1>26. ASSUME NEW a \in Agents, TqRead(a) PROVE Startup'
  BY <1>26 DEF TqRead, Back
<1>27. ASSUME NEW a \in Agents, DestroySem(a) PROVE Startup'
  BY <1>27 DEF DestroySem, WaitExit
<1>28. ASSUME NEW a \in Agents, DestroyLock(a) PROVE Startup'
  BY <1>28 DEF DestroyLock, Lock
<1>29. ASSUME NEW a \in Agents, Clear(a) PROVE Startup'
  BY <1>29 DEF Clear, Cancel
<1>30. ASSUME NEW a \in Agents, ClearJoin(a) PROVE Startup'
  BY <1>30 DEF ClearJoin, Join
<1>31. ASSUME NEW a \in Agents, ClearDone(a) PROVE Startup'
  BY <1>31 DEF ClearDone
<1>32. ASSUME NEW a \in Agents, AbortDone(a) PROVE Startup'
  BY <1>32 DEF AbortDone
<1>33. ASSUME NEW a \in Agents, DestroyPost(a) PROVE Startup'
  BY <1>33 DEF DestroyPost, PostExit
<1>34. ASSUME NEW a \in Agents, DestroyFree(a) PROVE Startup'
  <2>1. pool # "init" /\ pool' = "freed"
    BY <1>34 DEF DestroyFree
  <2> QED
    BY <1>34, <2>1 DEF DestroyFree
<1>35. ASSUME NEW w \in Workers, WaitIn(w) PROVE Startup'
  BY <1>35 DEF WaitIn
<1>36. ASSUME NEW w \in Workers, LockIn(w) PROVE Startup'
  BY <1>36 DEF LockIn, Lock
<1>37. ASSUME NEW w \in Workers, TakeIn(w) PROVE Startup'
  BY <1>37 DEF TakeIn
<1>38. ASSUME NEW w \in Workers, RunTask(w) PROVE Startup'
  BY <1>38 DEF RunTask
<1>39. ASSUME NEW w \in Workers, LockOut(w) PROVE Startup'
  BY <1>39 DEF LockOut, Lock
<1>40. ASSUME NEW w \in Workers, PostOut(w) PROVE Startup'
  BY <1>40 DEF PostOut
<1>41. ASSUME NEW w \in Workers, PostOutFails(w) PROVE Startup'
  BY <1>41 DEF PostOutFails
<1>42. ASSUME NEW w \in Workers, InsertOut(w) PROVE Startup'
  BY <1>42 DEF InsertOut, Race
<1>43. ASSUME NEW w \in Workers, Event(w) PROVE Startup'
  BY <1>43 DEF Event
<1>44. ASSUME NEW w \in Workers, Die(w) PROVE Startup'
  BY <1>44 DEF Die
<1>45. ASSUME NEW w \in Workers, RunExit(w) PROVE Startup'
  <2>1. pool \notin {"init", "aborting"} /\ pool' = pool
    BY <1>45 DEF RunExit
  <2>2. \A c \in Clients : pc'[c] = pc[c]
    BY <1>45 DEF RunExit
  <2> QED
    BY ONLY <2>1, <2>2, Startup DEF Startup
<1>46. ASSUME NEW w \in Workers, ExitSem(w) PROVE Startup'
  BY <1>46 DEF ExitSem, WaitExit
<1>47. ASSUME NEW w \in Workers, ExitLock(w) PROVE Startup'
  BY <1>47 DEF ExitLock, Lock
<1>48. ASSUME NEW w \in Workers, ExitTake(w) PROVE Startup'
  BY <1>48 DEF ExitTake
<1>49. ASSUME NEW w \in Workers, ExitPost(w) PROVE Startup'
  BY <1>49 DEF ExitPost, PostExit
<1>50. ASSUME NEW w \in Workers, Leave(w) PROVE Startup'
  BY <1>50 DEF Leave
<1> QED
BY ONLY [Next]_vars, <1>1, <1>2, <1>3, <1>4, <1>5, <1>6, <1>7, <1>8, <1>9,
     <1>10, <1>11, <1>12, <1>13, <1>14, <1>15, <1>16, <1>17, <1>18, <1>19,
     <1>20, <1>21, <1>22, <1>23, <1>24, <1>25, <1>26, <1>27, <1>28, <1>29,
     <1>30, <1>31, <1>32, <1>33, <1>34, <1>35, <1>36, <1>37, <1>38, <1>39,
     <1>40, <1>41, <1>42, <1>43, <1>44, <1>45, <1>46, <1>47, <1>48, <1>49,
     <1>50
     DEF Next, Call, Continue, Work

\* A step enters the section of a mutex only by locking it, and releases no
\* mutex but its own.
LEMMA LocksHeldStep == TypeInv /\ Startup /\ LocksHeld /\ [Next]_vars => LocksHeld'
<1> SUFFICES ASSUME TypeInv /\ Startup /\ LocksHeld, [Next]_vars PROVE LocksHeld'
  OBVIOUS
<1> USE ThreadsAssumption DEF TypeOK, Agents, Startup, LocksHeld, InSection, OutSection, MapSection
<1> USE DEF ClientPcs, WorkerPcs, Leaving, At, Goto, Acquire, Release
<1> USE DEF handVars, queueVars, semVars, threadVars, eventVars, taskVars
<1> USE DEF TypeInv, PcData
<1>1. CASE UNCHANGED vars
  BY <1>1 DEF vars
<1>2. ASSUME NEW a \in Agents, AddTask(a) PROVE LocksHeld'
  BY <1>2, OpsAssumption DEF AddTask, MayCall
<1>3. ASSUME NEW a \in Agents, RemoveThread(a) PROVE LocksHeld'
  BY <1>3, OpsAssumption DEF RemoveThread, MayCall
<1>4. ASSUME NEW a \in Agents, AddThread(a) PROVE LocksHeld'
  BY <1>4, OpsAssumption DEF AddThread, MayCall, Create
<1>5. ASSUME NEW a \in Agents, TasksQueued(a) PROVE LocksHeld'
  BY <1>5, OpsAssumption DEF TasksQueued, MayCall
<1>6. ASSUME NEW a \in Agents, EventRead(a) PROVE LocksHeld'
  BY <1>6, OpsAssumption DEF EventRead, MayCall
<1>7. ASSUME NEW a \in Agents, Take(a) PROVE LocksHeld'
  BY <1>7, OpsAssumption DEF Take, MayCall
<1>8. ASSUME NEW a \in Agents, DirectTake(a) PROVE LocksHeld'
  BY <1>8, OpsAssumption DEF DirectTake, MayCall
<1>9. ASSUME NEW a \in Agents, Destroy(a) PROVE LocksHeld'
  BY <1>9, OpsAssumption DEF Destroy, MayCall
<1>10. ASSUME NEW a \in Agents, AddLock(a) PROVE LocksHeld'
  BY <1>10 DEF AddLock, Lock
<1>11. ASSUME NEW a \in Agents, AddPost(a) PROVE LocksHeld'
  BY <1>11 DEF AddPost
<1>12. ASSUME NEW a \in Agents, AddPostFails(a) PROVE LocksHeld'
  BY <1>12 DEF AddPostFails, Back
<1>13. ASSUME NEW a \in Agents, AddInsert(a) PROVE LocksHeld'
  BY <1>13 DEF AddInsert, Back
<1>14. ASSUME NEW a \in Agents, RegLock(a) PROVE LocksHeld'
  BY <1>14 DEF RegLock, Lock
<1>15. ASSUME NEW a \in Agents, RegInsert(a) PROVE LocksHeld'
  BY <1>15 DEF RegInsert, Back
<1>16. ASSUME NEW a \in Agents, RegInsertFails(a) PROVE LocksHeld'
  BY <1>16 DEF RegInsertFails
<1>17. ASSUME NEW a \in Agents, RegCancel(a) PROVE LocksHeld'
  BY <1>17 DEF RegCancel, Cancel
<1>18. ASSUME NEW a \in Agents, RegJoin(a) PROVE LocksHeld'
  BY <1>18 DEF RegJoin, Back, Join
<1>19. ASSUME NEW a \in Agents, InitThread(a) PROVE LocksHeld'
  BY <1>19 DEF InitThread, Create
<1>20. ASSUME NEW a \in Agents, InitThreadFails(a) PROVE LocksHeld'
  BY <1>20 DEF InitThreadFails
<1>21. ASSUME NEW a \in Agents, InitDone(a) PROVE LocksHeld'
  BY <1>21 DEF InitDone
<1>22. ASSUME NEW a \in Agents, TakeWait(a) PROVE LocksHeld'
  BY <1>22 DEF TakeWait
<1>23. ASSUME NEW a \in Agents, TakeLock(a) PROVE LocksHeld'
  BY <1>23 DEF TakeLock, Lock
<1>24. ASSUME NEW a \in Agents, TakeOut(a) PROVE LocksHeld'
  BY <1>24 DEF TakeOut, Back, Race
<1>25. ASSUME NEW a \in Agents, TqLock(a) PROVE LocksHeld'
  BY <1>25 DEF TqLock, Lock
<1>26. ASSUME NEW a \in Agents, TqRead(a) PROVE LocksHeld'
  BY <1>26 DEF TqRead, Back
<1>27. ASSUME NEW a \in Agents, DestroySem(a) PROVE LocksHeld'
  BY <1>27 DEF DestroySem, WaitExit
<1>28. ASSUME NEW a \in Agents, DestroyLock(a) PROVE LocksHeld'
  BY <1>28 DEF DestroyLock, Lock
<1>29. ASSUME NEW a \in Agents, Clear(a) PROVE LocksHeld'
  BY <1>29 DEF Clear, Cancel
<1>30. ASSUME NEW a \in Agents, ClearJoin(a) PROVE LocksHeld'
  BY <1>30 DEF ClearJoin, Join
<1>31. ASSUME NEW a \in Agents, ClearDone(a) PROVE LocksHeld'
  BY <1>31 DEF ClearDone
<1>32. ASSUME NEW a \in Agents, AbortDone(a) PROVE LocksHeld'
  BY <1>32 DEF AbortDone
<1>33. ASSUME NEW a \in Agents, DestroyPost(a) PROVE LocksHeld'
  BY <1>33 DEF DestroyPost, PostExit
<1>34. ASSUME NEW a \in Agents, DestroyFree(a) PROVE LocksHeld'
  BY <1>34, ZenonT(60) DEF DestroyFree
<1>35. ASSUME NEW w \in Workers, WaitIn(w) PROVE LocksHeld'
  BY <1>35 DEF WaitIn
<1>36. ASSUME NEW w \in Workers, LockIn(w) PROVE LocksHeld'
  BY <1>36 DEF LockIn, Lock
<1>37. ASSUME NEW w \in Workers, TakeIn(w) PROVE LocksHeld'
  BY <1>37 DEF TakeIn
<1>38. ASSUME NEW w \in Workers, RunTask(w) PROVE LocksHeld'
  BY <1>38 DEF RunTask
<1>39. ASSUME NEW w \in Workers, LockOut(w) PROVE LocksHeld'
  BY <1>39 DEF LockOut, Lock
<1>40. ASSUME NEW w \in Workers, PostOut(w) PROVE LocksHeld'
  BY <1>40 DEF PostOut
<1>41. ASSUME NEW w \in Workers, PostOutFails(w) PROVE LocksHeld'
  BY <1>41 DEF PostOutFails
<1>42. ASSUME NEW w \in Workers, InsertOut(w) PROVE LocksHeld'
  BY <1>42 DEF InsertOut, Race
<1>43. ASSUME NEW w \in Workers, Event(w) PROVE LocksHeld'
  BY <1>43 DEF Event
<1>44. ASSUME NEW w \in Workers, Die(w) PROVE LocksHeld'
  BY <1>44 DEF Die
<1>45. ASSUME NEW w \in Workers, RunExit(w) PROVE LocksHeld'
  BY <1>45 DEF RunExit
<1>46. ASSUME NEW w \in Workers, ExitSem(w) PROVE LocksHeld'
  BY <1>46 DEF ExitSem, WaitExit
<1>47. ASSUME NEW w \in Workers, ExitLock(w) PROVE LocksHeld'
  BY <1>47 DEF ExitLock, Lock
<1>48. ASSUME NEW w \in Workers, ExitTake(w) PROVE LocksHeld'
  BY <1>48 DEF ExitTake
<1>49. ASSUME NEW w \in Workers, ExitPost(w) PROVE LocksHeld'
  BY <1>49 DEF ExitPost, PostExit
<1>50. ASSUME NEW w \in Workers, Leave(w) PROVE LocksHeld'
  BY <1>50 DEF Leave
<1> QED
BY ONLY [Next]_vars, <1>1, <1>2, <1>3, <1>4, <1>5, <1>6, <1>7, <1>8, <1>9,
     <1>10, <1>11, <1>12, <1>13, <1>14, <1>15, <1>16, <1>17, <1>18, <1>19,
     <1>20, <1>21, <1>22, <1>23, <1>24, <1>25, <1>26, <1>27, <1>28, <1>29,
     <1>30, <1>31, <1>32, <1>33, <1>34, <1>35, <1>36, <1>37, <1>38, <1>39,
     <1>40, <1>41, <1>42, <1>43, <1>44, <1>45, <1>46, <1>47, <1>48, <1>49,
     <1>50
     DEF Next, Call, Continue, Work

\* The threads that hold a token whose task they have not taken or inserted yet.
TakingIn == {a \in Agents : pc[a] \in {"lock_in", "take_in"}}
AddingIn == {a \in Agents : pc[a] \in {"add_insert"}}
TakingOut == {a \in Agents : pc[a] \in {"take_lock", "take_out"}}
AddingOut == {a \in Agents : pc[a] \in {"insert_out"}}

\* The inductive invariant.
IInv == TypeInv /\ Startup /\ LocksHeld /\ InTokens /\ OutTokens

\* Sets of threads are finite.
LEMMA AgentSets ==
  /\ IsFiniteSet(TakingIn) /\ IsFiniteSet(AddingIn)
  /\ IsFiniteSet(TakingOut) /\ IsFiniteSet(AddingOut)
BY ThreadsAssumption, FS_Subset DEF TakingIn, AddingIn, TakingOut, AddingOut

\* One more thread, one more in its number.
LEMMA Enter ==
  ASSUME NEW S, IsFiniteSet(S), NEW a, a \notin S
  PROVE  Cardinality(S \cup {a}) = Cardinality(S) + 1
BY FS_AddElement

\* One thread less, one less in their number.
LEMMA Exit ==
  ASSUME NEW S, IsFiniteSet(S), NEW a \in S
  PROVE  Cardinality(S \ {a}) = Cardinality(S) - 1 /\ Cardinality(S) \in Nat
BY FS_RemoveElement, FS_CardinalityType

\* Numbers of threads are natural numbers.
LEMMA CountsNat ==
  /\ Cardinality(TakingIn) \in Nat /\ Cardinality(AddingIn) \in Nat
  /\ Cardinality(TakingOut) \in Nat /\ Cardinality(AddingOut) \in Nat
BY AgentSets, FS_CardinalityType

\* A step that leaves task_queue_in and its token holders alone keeps InTokens.
LEMMA InFrame ==
  ASSUME InTokens, pool' # "freed" => pool # "freed",
         UNCHANGED <<sem_queue_in, task_queue_in, TakingIn, AddingIn>>
  PROVE  InTokens'
BY DEF InTokens, Count, TakingIn, AddingIn

\* A step that leaves task_queue_out and its token holders alone keeps OutTokens.
LEMMA OutFrame ==
  ASSUME OutTokens, pool' # "freed" => pool # "freed",
         UNCHANGED <<sem_queue_out, task_queue_out, TakingOut, AddingOut>>
  PROVE  OutTokens'
BY DEF OutTokens, Count, TakingOut, AddingOut

\* sem_post() with queue_insert() and sem_wait() with queue_take() keep the
\* tokens of sem_queue_in equal to the tasks of task_queue_in.
LEMMA InTokensStep == TypeInv /\ Startup /\ LocksHeld /\ InTokens /\ [Next]_vars => InTokens'
<1> SUFFICES ASSUME TypeInv /\ Startup /\ LocksHeld /\ InTokens, [Next]_vars PROVE InTokens'
  OBVIOUS
<1> USE ThreadsAssumption, InFrame DEF TypeInv, TakingIn, AddingIn, ClientPcs, WorkerPcs, Leaving
<1> USE DEF TypeOK, Agents, At, Goto, Acquire, Release
<1> USE DEF handVars, queueVars, semVars, threadVars, eventVars, taskVars
<1>1. CASE UNCHANGED vars
  BY <1>1 DEF vars
<1>2. ASSUME NEW a \in Agents, AddTask(a) PROVE InTokens'
  BY <1>2 DEF AddTask, MayCall
<1>3. ASSUME NEW a \in Agents, RemoveThread(a) PROVE InTokens'
  BY <1>3 DEF RemoveThread, MayCall
<1>4. ASSUME NEW a \in Agents, AddThread(a) PROVE InTokens'
  BY <1>4 DEF AddThread, MayCall, Create
<1>5. ASSUME NEW a \in Agents, TasksQueued(a) PROVE InTokens'
  BY <1>5 DEF TasksQueued, MayCall
<1>6. ASSUME NEW a \in Agents, EventRead(a) PROVE InTokens'
  BY <1>6 DEF EventRead, MayCall
<1>7. ASSUME NEW a \in Agents, Take(a) PROVE InTokens'
  BY <1>7 DEF Take, MayCall
<1>8. ASSUME NEW a \in Agents, DirectTake(a) PROVE InTokens'
  BY <1>8 DEF DirectTake, MayCall
<1>9. ASSUME NEW a \in Agents, Destroy(a) PROVE InTokens'
  BY <1>9 DEF Destroy, MayCall
<1>10. ASSUME NEW a \in Agents, AddLock(a) PROVE InTokens'
  BY <1>10 DEF AddLock, Lock
<1>11. ASSUME NEW a \in Agents, AddPost(a) PROVE InTokens'
  <2>1. /\ TakingIn' = TakingIn
        /\ a \notin AddingIn /\ AddingIn' = AddingIn \cup {a}
    BY <1>11 DEF AddPost
  <2> HIDE DEF TakingIn, AddingIn
  <2>2. Cardinality(AddingIn)' = Cardinality(AddingIn) + 1
    BY ONLY <2>1, AgentSets, Enter
  <2>4. pool # "freed" =>
          sem_queue_in + Cardinality(TakingIn) = Len(task_queue_in) + Cardinality(AddingIn)
    BY ONLY InTokens DEF InTokens, Count, TakingIn, AddingIn
  <2>5. sem_queue_in \in Nat /\ Len(task_queue_in) \in Nat
    BY ONLY TypeOK DEF TypeOK
  <2>6. pool' # "freed" =>
          sem_queue_in' + Cardinality(TakingIn)' = Len(task_queue_in') + Cardinality(AddingIn)'
    BY ONLY <2>1, <2>2, <2>4, <2>5, CountsNat, AddPost(a)
       DEF AddPost, queueVars
  <2> QED
    BY ONLY <2>6 DEF InTokens, Count, TakingIn, AddingIn
<1>12. ASSUME NEW a \in Agents, AddPostFails(a) PROVE InTokens'
  BY <1>12 DEF AddPostFails, Back
<1>13. ASSUME NEW a \in Agents, AddInsert(a) PROVE InTokens'
  <2>1. /\ TakingIn' = TakingIn
        /\ a \in AddingIn /\ AddingIn' = AddingIn \ {a}
    BY <1>13 DEF AddInsert, Back
  <2> HIDE DEF TakingIn, AddingIn
  <2>2. Cardinality(AddingIn)' = Cardinality(AddingIn) - 1
    BY ONLY <2>1, AgentSets, Exit
  <2>3. Len(task_queue_in') = Len(task_queue_in) + 1
    BY ONLY TypeOK, TypeInv, AddInsert(a)
       DEF TypeOK, TypeInv, PcData, At, AddInsert, Back
  <2>4. pool # "freed" =>
          sem_queue_in + Cardinality(TakingIn) = Len(task_queue_in) + Cardinality(AddingIn)
    BY ONLY InTokens DEF InTokens, Count, TakingIn, AddingIn
  <2>5. sem_queue_in \in Nat /\ Len(task_queue_in) \in Nat
    BY ONLY TypeOK DEF TypeOK
  <2>7. UNCHANGED <<sem_queue_in, pool>>
    BY ONLY AddInsert(a) DEF AddInsert, Back, semVars
  <2>6. pool' # "freed" =>
          sem_queue_in' + Cardinality(TakingIn)' = Len(task_queue_in') + Cardinality(AddingIn)'
    BY ONLY <2>1, <2>2, <2>3, <2>4, <2>5, <2>7, CountsNat
  <2> QED
    BY ONLY <2>6 DEF InTokens, Count, TakingIn, AddingIn
<1>14. ASSUME NEW a \in Agents, RegLock(a) PROVE InTokens'
  BY <1>14 DEF RegLock, Lock
<1>15. ASSUME NEW a \in Agents, RegInsert(a) PROVE InTokens'
  BY <1>15 DEF RegInsert, Back
<1>16. ASSUME NEW a \in Agents, RegInsertFails(a) PROVE InTokens'
  BY <1>16 DEF RegInsertFails
<1>17. ASSUME NEW a \in Agents, RegCancel(a) PROVE InTokens'
  BY <1>17 DEF RegCancel, Cancel
<1>18. ASSUME NEW a \in Agents, RegJoin(a) PROVE InTokens'
  BY <1>18 DEF RegJoin, Back, Join
<1>19. ASSUME NEW a \in Agents, InitThread(a) PROVE InTokens'
  BY <1>19 DEF InitThread, Create
<1>20. ASSUME NEW a \in Agents, InitThreadFails(a) PROVE InTokens'
  <2>1. a = Creator /\ pool = "init"
    BY <1>20 DEF Startup, InitThreadFails
  <2> QED
    BY <1>20, <2>1 DEF Startup, InitThreadFails
<1>21. ASSUME NEW a \in Agents, InitDone(a) PROVE InTokens'
  <2>1. a = Creator /\ pool = "init"
    BY <1>21 DEF Startup, InitDone
  <2> QED
    BY <1>21, <2>1 DEF Startup, InitDone
<1>22. ASSUME NEW a \in Agents, TakeWait(a) PROVE InTokens'
  BY <1>22 DEF TakeWait
<1>23. ASSUME NEW a \in Agents, TakeLock(a) PROVE InTokens'
  BY <1>23 DEF TakeLock, Lock
<1>24. ASSUME NEW a \in Agents, TakeOut(a) PROVE InTokens'
  BY <1>24 DEF TakeOut, Back, Race
<1>25. ASSUME NEW a \in Agents, TqLock(a) PROVE InTokens'
  BY <1>25 DEF TqLock, Lock
<1>26. ASSUME NEW a \in Agents, TqRead(a) PROVE InTokens'
  BY <1>26 DEF TqRead, Back
<1>27. ASSUME NEW a \in Agents, DestroySem(a) PROVE InTokens'
  BY <1>27 DEF DestroySem, WaitExit
<1>28. ASSUME NEW a \in Agents, DestroyLock(a) PROVE InTokens'
  BY <1>28 DEF DestroyLock, Lock
<1>29. ASSUME NEW a \in Agents, Clear(a) PROVE InTokens'
  BY <1>29 DEF Clear, Cancel
<1>30. ASSUME NEW a \in Agents, ClearJoin(a) PROVE InTokens'
  BY <1>30 DEF ClearJoin, Join
<1>31. ASSUME NEW a \in Agents, ClearDone(a) PROVE InTokens'
  BY <1>31 DEF ClearDone
<1>32. ASSUME NEW a \in Agents, AbortDone(a) PROVE InTokens'
  BY <1>32 DEF AbortDone
<1>33. ASSUME NEW a \in Agents, DestroyPost(a) PROVE InTokens'
  BY <1>33 DEF DestroyPost, PostExit
<1>34. ASSUME NEW a \in Agents, DestroyFree(a) PROVE InTokens'
  BY <1>34 DEF InTokens, DestroyFree
<1>35. ASSUME NEW w \in Workers, WaitIn(w) PROVE InTokens'
  <2>1. /\ w \notin TakingIn /\ TakingIn' = TakingIn \cup {w}
        /\ AddingIn' = AddingIn
    BY <1>35 DEF WaitIn
  <2> HIDE DEF TakingIn, AddingIn
  <2>2. Cardinality(TakingIn)' = Cardinality(TakingIn) + 1
    BY ONLY <2>1, AgentSets, Enter
  <2>4. pool # "freed" =>
          sem_queue_in + Cardinality(TakingIn) = Len(task_queue_in) + Cardinality(AddingIn)
    BY ONLY InTokens DEF InTokens, Count, TakingIn, AddingIn
  <2>5. sem_queue_in \in Nat /\ Len(task_queue_in) \in Nat
    BY ONLY TypeOK DEF TypeOK
  <2>6. pool' # "freed" =>
          sem_queue_in' + Cardinality(TakingIn)' = Len(task_queue_in') + Cardinality(AddingIn)'
    BY ONLY <2>1, <2>2, <2>4, <2>5, CountsNat, WaitIn(w) DEF WaitIn, queueVars
  <2> QED
    BY ONLY <2>6 DEF InTokens, Count, TakingIn, AddingIn
<1>36. ASSUME NEW w \in Workers, LockIn(w) PROVE InTokens'
  BY <1>36 DEF LockIn, Lock
<1>37. ASSUME NEW w \in Workers, TakeIn(w) PROVE InTokens'
  <2>1. /\ w \in TakingIn /\ TakingIn' = TakingIn \ {w}
        /\ AddingIn' = AddingIn
    BY <1>37 DEF TakeIn
  <2> HIDE DEF TakingIn, AddingIn
  <2>2. Cardinality(TakingIn)' = Cardinality(TakingIn) - 1
    BY ONLY <2>1, AgentSets, Exit
  <2>3. Len(task_queue_in') = Len(task_queue_in) - 1
    BY ONLY TypeOK, TypeInv, TakeIn(w) DEF TypeOK, TakeIn
  <2>4. pool # "freed" =>
          sem_queue_in + Cardinality(TakingIn) = Len(task_queue_in) + Cardinality(AddingIn)
    BY ONLY InTokens DEF InTokens, Count, TakingIn, AddingIn
  <2>5. sem_queue_in \in Nat /\ Len(task_queue_in) \in Nat
    BY ONLY TypeOK DEF TypeOK
  <2>7. UNCHANGED <<sem_queue_in, pool>>
    BY ONLY TakeIn(w) DEF TakeIn, semVars
  <2>6. pool' # "freed" =>
          sem_queue_in' + Cardinality(TakingIn)' = Len(task_queue_in') + Cardinality(AddingIn)'
    BY ONLY <2>1, <2>2, <2>3, <2>4, <2>5, <2>7, CountsNat, SMTT(30)
  <2> QED
    BY ONLY <2>6 DEF InTokens, Count, TakingIn, AddingIn
<1>38. ASSUME NEW w \in Workers, RunTask(w) PROVE InTokens'
  BY <1>38 DEF RunTask
<1>39. ASSUME NEW w \in Workers, LockOut(w) PROVE InTokens'
  BY <1>39 DEF LockOut, Lock
<1>40. ASSUME NEW w \in Workers, PostOut(w) PROVE InTokens'
  BY <1>40 DEF PostOut
<1>41. ASSUME NEW w \in Workers, PostOutFails(w) PROVE InTokens'
  BY <1>41 DEF PostOutFails
<1>42. ASSUME NEW w \in Workers, InsertOut(w) PROVE InTokens'
  BY <1>42 DEF InsertOut, Race
<1>43. ASSUME NEW w \in Workers, Event(w) PROVE InTokens'
  BY <1>43 DEF Event
<1>44. ASSUME NEW w \in Workers, Die(w) PROVE InTokens'
  BY <1>44 DEF Die
<1>45. ASSUME NEW w \in Workers, RunExit(w) PROVE InTokens'
  BY <1>45 DEF RunExit
<1>46. ASSUME NEW w \in Workers, ExitSem(w) PROVE InTokens'
  BY <1>46 DEF ExitSem, WaitExit
<1>47. ASSUME NEW w \in Workers, ExitLock(w) PROVE InTokens'
  BY <1>47 DEF ExitLock, Lock
<1>48. ASSUME NEW w \in Workers, ExitTake(w) PROVE InTokens'
  BY <1>48 DEF ExitTake
<1>49. ASSUME NEW w \in Workers, ExitPost(w) PROVE InTokens'
  BY <1>49 DEF ExitPost, PostExit
<1>50. ASSUME NEW w \in Workers, Leave(w) PROVE InTokens'
  BY <1>50 DEF Leave
<1> QED
BY ONLY [Next]_vars, <1>1, <1>2, <1>3, <1>4, <1>5, <1>6, <1>7, <1>8, <1>9,
     <1>10, <1>11, <1>12, <1>13, <1>14, <1>15, <1>16, <1>17, <1>18, <1>19,
     <1>20, <1>21, <1>22, <1>23, <1>24, <1>25, <1>26, <1>27, <1>28, <1>29,
     <1>30, <1>31, <1>32, <1>33, <1>34, <1>35, <1>36, <1>37, <1>38, <1>39,
     <1>40, <1>41, <1>42, <1>43, <1>44, <1>45, <1>46, <1>47, <1>48, <1>49,
     <1>50
     DEF Next, Call, Continue, Work

\* The same for sem_queue_out and task_queue_out, where no other thread can be
\* in the section as long as every thread unlocks only what it has locked.
LEMMA OutTokensStep == TypeInv /\ Startup /\ LocksHeld /\ OutTokens /\ [Next]_vars => OutTokens'
<1> SUFFICES ASSUME TypeInv /\ Startup /\ LocksHeld /\ OutTokens, [Next]_vars PROVE OutTokens'
  OBVIOUS
<1> USE ThreadsAssumption, OutFrame DEF TypeInv, TakingOut, AddingOut, ClientPcs, WorkerPcs, Leaving
<1> USE DEF TypeOK, Agents, At, Goto, Acquire, Release
<1> USE DEF handVars, queueVars, semVars, threadVars, eventVars, taskVars
<1>1. CASE UNCHANGED vars
  BY <1>1 DEF vars
<1>2. ASSUME NEW a \in Agents, AddTask(a) PROVE OutTokens'
  BY <1>2 DEF AddTask, MayCall
<1>3. ASSUME NEW a \in Agents, RemoveThread(a) PROVE OutTokens'
  BY <1>3 DEF RemoveThread, MayCall
<1>4. ASSUME NEW a \in Agents, AddThread(a) PROVE OutTokens'
  BY <1>4 DEF AddThread, MayCall, Create
<1>5. ASSUME NEW a \in Agents, TasksQueued(a) PROVE OutTokens'
  BY <1>5 DEF TasksQueued, MayCall
<1>6. ASSUME NEW a \in Agents, EventRead(a) PROVE OutTokens'
  BY <1>6 DEF EventRead, MayCall
<1>7. ASSUME NEW a \in Agents, Take(a) PROVE OutTokens'
  BY <1>7 DEF Take, MayCall
<1>8. ASSUME NEW a \in Agents, DirectTake(a) PROVE OutTokens'
  BY <1>8 DEF DirectTake, MayCall
<1>9. ASSUME NEW a \in Agents, Destroy(a) PROVE OutTokens'
  BY <1>9 DEF Destroy, MayCall
<1>10. ASSUME NEW a \in Agents, AddLock(a) PROVE OutTokens'
  BY <1>10 DEF AddLock, Lock
<1>11. ASSUME NEW a \in Agents, AddPost(a) PROVE OutTokens'
  BY <1>11 DEF AddPost
<1>12. ASSUME NEW a \in Agents, AddPostFails(a) PROVE OutTokens'
  BY <1>12 DEF AddPostFails, Back
<1>13. ASSUME NEW a \in Agents, AddInsert(a) PROVE OutTokens'
  BY <1>13 DEF AddInsert, Back
<1>14. ASSUME NEW a \in Agents, RegLock(a) PROVE OutTokens'
  BY <1>14 DEF RegLock, Lock
<1>15. ASSUME NEW a \in Agents, RegInsert(a) PROVE OutTokens'
  BY <1>15 DEF RegInsert, Back
<1>16. ASSUME NEW a \in Agents, RegInsertFails(a) PROVE OutTokens'
  BY <1>16 DEF RegInsertFails
<1>17. ASSUME NEW a \in Agents, RegCancel(a) PROVE OutTokens'
  BY <1>17 DEF RegCancel, Cancel
<1>18. ASSUME NEW a \in Agents, RegJoin(a) PROVE OutTokens'
  BY <1>18 DEF RegJoin, Back, Join
<1>19. ASSUME NEW a \in Agents, InitThread(a) PROVE OutTokens'
  BY <1>19 DEF InitThread, Create
<1>20. ASSUME NEW a \in Agents, InitThreadFails(a) PROVE OutTokens'
  <2>1. a = Creator /\ pool = "init"
    BY <1>20 DEF Startup, InitThreadFails
  <2> QED
    BY <1>20, <2>1 DEF Startup, InitThreadFails
<1>21. ASSUME NEW a \in Agents, InitDone(a) PROVE OutTokens'
  <2>1. a = Creator /\ pool = "init"
    BY <1>21 DEF Startup, InitDone
  <2> QED
    BY <1>21, <2>1 DEF Startup, InitDone
<1>22. ASSUME NEW a \in Agents, TakeWait(a) PROVE OutTokens'
  <2>1. /\ a \notin TakingOut /\ TakingOut' = TakingOut \cup {a}
        /\ AddingOut' = AddingOut
    BY <1>22 DEF TakeWait
  <2> HIDE DEF TakingOut, AddingOut
  <2>2. Cardinality(TakingOut)' = Cardinality(TakingOut) + 1
    BY ONLY <2>1, AgentSets, Enter
  <2>4. pool # "freed" /\ UnlocksOwnMutex =>
          sem_queue_out + Cardinality(TakingOut) = Len(task_queue_out) + Cardinality(AddingOut)
    BY ONLY OutTokens DEF OutTokens, Count, TakingOut, AddingOut
  <2>5. sem_queue_out \in Nat /\ Len(task_queue_out) \in Nat
    BY ONLY TypeOK DEF TypeOK
  <2>6. pool' # "freed" /\ UnlocksOwnMutex =>
          sem_queue_out' + Cardinality(TakingOut)' = Len(task_queue_out') + Cardinality(AddingOut)'
    BY ONLY <2>1, <2>2, <2>4, <2>5, CountsNat, TakeWait(a)
       DEF TakeWait, queueVars
  <2> QED
    BY ONLY <2>6 DEF OutTokens, Count, TakingOut, AddingOut
<1>23. ASSUME NEW a \in Agents, TakeLock(a) PROVE OutTokens'
  BY <1>23 DEF TakeLock, Lock
<1>24. ASSUME NEW a \in Agents, TakeOut(a) PROVE OutTokens'
  <2>9. UnlocksOwnMutex => ~Race(a)
    BY ONLY ThreadsAssumption, TypeOK, LocksHeld, TakeOut(a), a \in Agents
       DEF TypeOK, LocksHeld, OutSection, Race, At, Agents, TakeOut, Back
  <2>1. /\ a \in TakingOut /\ TakingOut' = TakingOut \ {a}
        /\ AddingOut' = AddingOut
    BY <1>24 DEF TakeOut, Back, Race
  <2> HIDE DEF TakingOut, AddingOut
  <2>2. Cardinality(TakingOut)' = Cardinality(TakingOut) - 1
    BY ONLY <2>1, AgentSets, Exit
  <2>3. UnlocksOwnMutex => Len(task_queue_out') = Len(task_queue_out) - 1
    BY ONLY <2>9, TypeOK, TypeInv, TakeOut(a) DEF TypeOK, TakeOut, Back, Race
  <2>4. pool # "freed" /\ UnlocksOwnMutex =>
          sem_queue_out + Cardinality(TakingOut) = Len(task_queue_out) + Cardinality(AddingOut)
    BY ONLY OutTokens DEF OutTokens, Count, TakingOut, AddingOut
  <2>5. sem_queue_out \in Nat /\ Len(task_queue_out) \in Nat
    BY ONLY TypeOK DEF TypeOK
  <2>7. UNCHANGED <<sem_queue_out, pool>>
    BY ONLY TakeOut(a) DEF TakeOut, Back, Race, semVars
  <2>6. pool' # "freed" /\ UnlocksOwnMutex =>
          sem_queue_out' + Cardinality(TakingOut)' = Len(task_queue_out') + Cardinality(AddingOut)'
    BY ONLY <2>1, <2>2, <2>3, <2>4, <2>5, <2>7, CountsNat
  <2> QED
    BY ONLY <2>6 DEF OutTokens, Count, TakingOut, AddingOut
<1>25. ASSUME NEW a \in Agents, TqLock(a) PROVE OutTokens'
  BY <1>25 DEF TqLock, Lock
<1>26. ASSUME NEW a \in Agents, TqRead(a) PROVE OutTokens'
  BY <1>26 DEF TqRead, Back
<1>27. ASSUME NEW a \in Agents, DestroySem(a) PROVE OutTokens'
  BY <1>27 DEF DestroySem, WaitExit
<1>28. ASSUME NEW a \in Agents, DestroyLock(a) PROVE OutTokens'
  BY <1>28 DEF DestroyLock, Lock
<1>29. ASSUME NEW a \in Agents, Clear(a) PROVE OutTokens'
  BY <1>29 DEF Clear, Cancel
<1>30. ASSUME NEW a \in Agents, ClearJoin(a) PROVE OutTokens'
  BY <1>30 DEF ClearJoin, Join
<1>31. ASSUME NEW a \in Agents, ClearDone(a) PROVE OutTokens'
  BY <1>31 DEF ClearDone
<1>32. ASSUME NEW a \in Agents, AbortDone(a) PROVE OutTokens'
  BY <1>32 DEF AbortDone
<1>33. ASSUME NEW a \in Agents, DestroyPost(a) PROVE OutTokens'
  BY <1>33 DEF DestroyPost, PostExit
<1>34. ASSUME NEW a \in Agents, DestroyFree(a) PROVE OutTokens'
  BY <1>34 DEF OutTokens, DestroyFree
<1>35. ASSUME NEW w \in Workers, WaitIn(w) PROVE OutTokens'
  BY <1>35 DEF WaitIn
<1>36. ASSUME NEW w \in Workers, LockIn(w) PROVE OutTokens'
  BY <1>36 DEF LockIn, Lock
<1>37. ASSUME NEW w \in Workers, TakeIn(w) PROVE OutTokens'
  BY <1>37 DEF TakeIn
<1>38. ASSUME NEW w \in Workers, RunTask(w) PROVE OutTokens'
  BY <1>38 DEF RunTask
<1>39. ASSUME NEW w \in Workers, LockOut(w) PROVE OutTokens'
  BY <1>39 DEF LockOut, Lock
<1>40. ASSUME NEW w \in Workers, PostOut(w) PROVE OutTokens'
  <2>1. /\ TakingOut' = TakingOut
        /\ w \notin AddingOut /\ AddingOut' = AddingOut \cup {w}
    BY <1>40 DEF PostOut
  <2> HIDE DEF TakingOut, AddingOut
  <2>2. Cardinality(AddingOut)' = Cardinality(AddingOut) + 1
    BY ONLY <2>1, AgentSets, Enter
  <2>4. pool # "freed" /\ UnlocksOwnMutex =>
          sem_queue_out + Cardinality(TakingOut) = Len(task_queue_out) + Cardinality(AddingOut)
    BY ONLY OutTokens DEF OutTokens, Count, TakingOut, AddingOut
  <2>5. sem_queue_out \in Nat /\ Len(task_queue_out) \in Nat
    BY ONLY TypeOK DEF TypeOK
  <2>6. pool' # "freed" /\ UnlocksOwnMutex =>
          sem_queue_out' + Cardinality(TakingOut)' = Len(task_queue_out') + Cardinality(AddingOut)'
    BY ONLY <2>1, <2>2, <2>4, <2>5, CountsNat, PostOut(w)
       DEF PostOut, queueVars
  <2> QED
    BY ONLY <2>6 DEF OutTokens, Count, TakingOut, AddingOut
<1>41. ASSUME NEW w \in Workers, PostOutFails(w) PROVE OutTokens'
  BY <1>41 DEF PostOutFails
<1>42. ASSUME NEW w \in Workers, InsertOut(w) PROVE OutTokens'
  <2>9. UnlocksOwnMutex => ~Race(w)
    BY ONLY ThreadsAssumption, TypeOK, LocksHeld, InsertOut(w), w \in Agents
       DEF TypeOK, LocksHeld, OutSection, Race, At, Agents, InsertOut
  <2>1. /\ TakingOut' = TakingOut
        /\ w \in AddingOut /\ AddingOut' = AddingOut \ {w}
    BY <1>42 DEF InsertOut, Race
  <2> HIDE DEF TakingOut, AddingOut
  <2>2. Cardinality(AddingOut)' = Cardinality(AddingOut) - 1
    BY ONLY <2>1, AgentSets, Exit
  <2>3. UnlocksOwnMutex => Len(task_queue_out') = Len(task_queue_out) + 1
    BY ONLY <2>9, TypeOK, TypeInv, InsertOut(w)
       DEF TypeOK, TypeInv, PcData, At, InsertOut, Race
  <2>4. pool # "freed" /\ UnlocksOwnMutex =>
          sem_queue_out + Cardinality(TakingOut) = Len(task_queue_out) + Cardinality(AddingOut)
    BY ONLY OutTokens DEF OutTokens, Count, TakingOut, AddingOut
  <2>5. sem_queue_out \in Nat /\ Len(task_queue_out) \in Nat
    BY ONLY TypeOK DEF TypeOK
  <2>7. UNCHANGED <<sem_queue_out, pool>>
    BY ONLY InsertOut(w) DEF InsertOut, Race, semVars
  <2>6. pool' # "freed" /\ UnlocksOwnMutex =>
          sem_queue_out' + Cardinality(TakingOut)' = Len(task_queue_out') + Cardinality(AddingOut)'
    BY ONLY <2>1, <2>2, <2>3, <2>4, <2>5, <2>7, CountsNat
  <2> QED
    BY ONLY <2>6 DEF OutTokens, Count, TakingOut, AddingOut
<1>43. ASSUME NEW w \in Workers, Event(w) PROVE OutTokens'
  BY <1>43 DEF Event
<1>44. ASSUME NEW w \in Workers, Die(w) PROVE OutTokens'
  BY <1>44 DEF Die
<1>45. ASSUME NEW w \in Workers, RunExit(w) PROVE OutTokens'
  BY <1>45 DEF RunExit
<1>46. ASSUME NEW w \in Workers, ExitSem(w) PROVE OutTokens'
  BY <1>46 DEF ExitSem, WaitExit
<1>47. ASSUME NEW w \in Workers, ExitLock(w) PROVE OutTokens'
  BY <1>47 DEF ExitLock, Lock
<1>48. ASSUME NEW w \in Workers, ExitTake(w) PROVE OutTokens'
  BY <1>48 DEF ExitTake
<1>49. ASSUME NEW w \in Workers, ExitPost(w) PROVE OutTokens'
  BY <1>49 DEF ExitPost, PostExit
<1>50. ASSUME NEW w \in Workers, Leave(w) PROVE OutTokens'
  BY <1>50 DEF Leave
<1> QED
BY ONLY [Next]_vars, <1>1, <1>2, <1>3, <1>4, <1>5, <1>6, <1>7, <1>8, <1>9,
     <1>10, <1>11, <1>12, <1>13, <1>14, <1>15, <1>16, <1>17, <1>18, <1>19,
     <1>20, <1>21, <1>22, <1>23, <1>24, <1>25, <1>26, <1>27, <1>28, <1>29,
     <1>30, <1>31, <1>32, <1>33, <1>34, <1>35, <1>36, <1>37, <1>38, <1>39,
     <1>40, <1>41, <1>42, <1>43, <1>44, <1>45, <1>46, <1>47, <1>48, <1>49,
     <1>50
     DEF Next, Call, Continue, Work

\* The invariant holds of the pool threadpool_init() starts from.
LEMMA InitInv == Init => IInv
<1> SUFFICES ASSUME Init PROVE IInv
  OBVIOUS
<1> USE ThreadsAssumption DEF Init, Agents
<1>1. TypeOK
  BY DEF TypeOK, ClientPcs, WorkerPcs, AllTasks
<1>2. PcData
  BY DEF PcData
<1>3. Startup
  BY DEF Startup
<1>4. LocksHeld
  BY DEF LocksHeld, InSection, OutSection, MapSection
<1>5. TakingIn = {} /\ AddingIn = {} /\ TakingOut = {} /\ AddingOut = {}
  BY DEF TakingIn, AddingIn, TakingOut, AddingOut
<1>6. Cardinality({}) = 0 /\ Len(task_queue_in) = 0 /\ Len(task_queue_out) = 0
  BY FS_EmptySet
<1>7. InTokens
  BY <1>5, <1>6 DEF InTokens, Count, TakingIn, AddingIn
<1>8. OutTokens
  BY <1>5, <1>6 DEF OutTokens, Count, TakingOut, AddingOut
<1> QED
  BY <1>1, <1>2, <1>3, <1>4, <1>7, <1>8 DEF IInv, TypeInv

\* Every step keeps the invariant.
LEMMA NextInv == IInv /\ [Next]_vars => IInv'
BY TypeInvStep, StartupStep, LocksHeldStep, InTokensStep, OutTokensStep
   DEF IInv, TypeInv

\* The inductive invariant holds of every state of the pool.
THEOREM Inductive == Spec => []IInv
BY InitInv, NextInv, PTL DEF Spec

\* Every variable of threadpool.c keeps its type: no semaphore is negative, no
\* queue holds anything but tasks.
THEOREM TypeCorrect == Spec => []TypeOK
<1>1. IInv => TypeOK
  BY DEF IInv, TypeInv
<1> QED
  BY <1>1, Inductive, PTL

\* Each queue and the thread map is worked on only by the owner of its mutex.
THEOREM MutualExclusion == Spec => []LocksHeld
<1>1. IInv => LocksHeld
  BY DEF IInv
<1> QED
  BY <1>1, Inductive, PTL

\* sem_queue_in counts the tasks of task_queue_in, in every state of a pool that
\* has not been freed: a worker that got a token finds a task.
THEOREM TokensCountPending == Spec => []InTokens
<1>1. IInv => InTokens
  BY DEF IInv
<1> QED
  BY <1>1, Inductive, PTL

\* sem_queue_out counts the tasks of task_queue_out, as long as no thread unlocks
\* mutex_queue_out that another one holds (threadpool_tasks_queued()).
THEOREM TokensCountCompleted == Spec => []OutTokens
<1>1. IInv => OutTokens
  BY DEF IInv
<1> QED
  BY <1>1, Inductive, PTL

\* A thread about to call queue_take() holds a token and the mutex, so nobody is
\* between sem_post() and queue_insert(), and its token stands for a task.
LEMMA TokensSuffice == IInv => NoEmptyTake
<1> SUFFICES ASSUME IInv, pool # "freed", NEW a \in Agents
             PROVE  /\ At(a, "take_in") => task_queue_in # <<>>
                    /\ UnlocksOwnMutex /\ At(a, "take_out")
                         => task_queue_out # <<>>
  BY DEF NoEmptyTake
<1>1. TypeOK /\ LocksHeld /\ InTokens /\ OutTokens
  BY DEF IInv, TypeInv
<1>2. /\ sem_queue_in \in Nat /\ Len(task_queue_in) \in Nat
      /\ sem_queue_out \in Nat /\ Len(task_queue_out) \in Nat
  BY <1>1 DEF TypeOK
<1>3. Cardinality({}) = 0 /\ Len(<<>>) = 0
  BY FS_EmptySet
<1>4. ASSUME At(a, "take_in") PROVE task_queue_in # <<>>
  <2>1. a \in TakingIn /\ AddingIn = {}
    BY <1>1, <1>4, ThreadsAssumption
       DEF LocksHeld, InSection, TakingIn, AddingIn, At, Agents
  <2>2. Cardinality(TakingIn) > 0
    BY <2>1, AgentSets, FS_EmptySet, FS_CardinalityType
  <2>3. sem_queue_in + Cardinality(TakingIn)
          = Len(task_queue_in) + Cardinality(AddingIn)
    BY <1>1 DEF InTokens, Count, TakingIn, AddingIn
  <2> QED
    BY <1>2, <1>3, <2>1, <2>2, <2>3, CountsNat
<1>5. ASSUME UnlocksOwnMutex, At(a, "take_out") PROVE task_queue_out # <<>>
  <2>1. a \in TakingOut /\ AddingOut = {}
    BY <1>1, <1>5, ThreadsAssumption
       DEF LocksHeld, OutSection, TakingOut, AddingOut, At, Agents
  <2>2. Cardinality(TakingOut) > 0
    BY <2>1, AgentSets, FS_EmptySet, FS_CardinalityType
  <2>3. sem_queue_out + Cardinality(TakingOut)
          = Len(task_queue_out) + Cardinality(AddingOut)
    BY <1>1, <1>5 DEF OutTokens, Count, TakingOut, AddingOut
  <2> QED
    BY <1>2, <1>3, <2>1, <2>2, <2>3, CountsNat
<1> QED
  BY <1>4, <1>5

\* No thread takes from an empty queue, whatever the interleaving of clients and
\* workers (threadpool_take_completed_task(), _thread_handle_tasks()).
THEOREM QueuesNeverUnderflow == Spec => []NoEmptyTake
BY Inductive, TokensSuffice, PTL

-----------------------------------------------------------------------------
(* The lives of the threads *)

\* A thread exists from pthread_create() to its end, and its handle is in one
\* hand only: in the map, or with the thread that registers or joins it.
Handles ==
    /\ \A w \in Workers : thread[w] = "live" <=> pc[w] # "none"
    /\ \A w \in thread_map : \A a \in Agents : target[a] # w
    /\ \A a, b \in Agents : target[a] # None /\ target[a] = target[b] => a = b
    /\ \A a \in Agents : target[a] # None =>
           pc[a] \in {"reg_lock", "reg_insert", "reg_cancel", "reg_join",
                      "clear_join"}

DestroyPcs == {"destroy_sem", "destroy_lock", "destroy_post", "destroy_free"}

\* The creator destroys the pool alone.
Destruction ==
    /\ \A c \in Clients :
           pc[c] \in DestroyPcs \cup {"clear", "clear_join"} => c = Creator
    /\ pc[Creator] \in DestroyPcs => pool = "closing"
    /\ pc[Creator] \in {"clear", "clear_join"} => pool \in {"closing", "aborting"}
    /\ pool = "closing" =>
           pc[Creator] \in DestroyPcs \cup {"clear", "clear_join"}
    /\ pool = "closing" => \A c \in Clients \ {Creator} : pc[c] = "idle"
    /\ pool = "freed" => \A c \in Clients : pc[c] = "idle"

\* A thread that joins another one is not cancelled while it waits.
JoinsUndisturbed == "add_thread" \notin TaskOps \/ "insert" \notin Faults

\* Without failing map_insert() nobody joins in threadpool_add_thread(), and
\* without tasks that add threads no worker does.
Joiners ==
    /\ "insert" \notin Faults =>
           \A a \in Agents : pc[a] \notin {"reg_cancel", "reg_join"}
    /\ "add_thread" \notin TaskOps =>
           \A w \in Workers : pc[w] \notin {"reg_lock", "reg_insert",
                                            "reg_cancel", "reg_join"}

\* The last steps of threadpool_destroy(): no thread is left but those that
\* have detached themselves.
LastThreads ==
    /\ pc[Creator] \in {"destroy_post", "destroy_free"} => thread_map = {}
    /\ pc[Creator] = "destroy_free" =>
           \A w \in Workers : pc[w] \in {"none", "leave_own"}

\* The inductive invariant of the threads' lives.
LInv ==
    /\ IInv
    /\ Handles /\ HandlesValid
    /\ Destruction /\ Joiners
    /\ ExitExclusive

\* No task adds a thread: then nobody waits for mutex_map, nor inserts into the
\* map, while threadpool_destroy() joins the threads.
TasksAddNoThread == "add_thread" \notin TaskOps


\* A handle goes from hand to hand and is never in two; a thread that took its own
\* handle out of the map is the only one to know it.
LEMMA HandlesStep == TypeInv /\ Startup /\ Handles /\ HandlesValid /\ [Next]_vars => (Handles /\ HandlesValid)'
<1> SUFFICES ASSUME TypeInv /\ Startup /\ Handles /\ HandlesValid, [Next]_vars PROVE (Handles /\ HandlesValid)'
  OBVIOUS
<1> USE ThreadsAssumption DEF TypeInv, TypeOK, PcData, Agents
<1> USE DEF ClientPcs, WorkerPcs, Leaving, At, Goto, Acquire, Release
<1> USE DEF handVars, queueVars, semVars, threadVars, eventVars, taskVars
<1> USE DEF Handles, HandlesValid
<1>1. CASE UNCHANGED vars
  BY <1>1 DEF vars
<1>2. ASSUME NEW a \in Agents, AddTask(a) PROVE (Handles /\ HandlesValid)'
  BY <1>2, OpsAssumption, ZenonT(60) DEF AddTask, MayCall
<1>3. ASSUME NEW a \in Agents, RemoveThread(a) PROVE (Handles /\ HandlesValid)'
  BY <1>3, OpsAssumption, ZenonT(60) DEF RemoveThread, MayCall
<1>4. ASSUME NEW a \in Agents, AddThread(a) PROVE (Handles /\ HandlesValid)'
  <2>1. PICK w \in Workers : Create(a, w)
    BY <1>4 DEF AddThread, Create
  <2>2. a # w
    BY <1>4, <2>1, OpsAssumption DEF AddThread, MayCall, Create
  <2>3. Handles'
    BY <1>4, <2>1, <2>2 DEF Create, AddThread, MayCall
  <2>4. HandlesValid'
    BY <1>4, <2>1, <2>2 DEF Create, AddThread, MayCall
  <2> QED
    BY <2>3, <2>4
<1>5. ASSUME NEW a \in Agents, TasksQueued(a) PROVE (Handles /\ HandlesValid)'
  BY <1>5, OpsAssumption DEF TasksQueued, MayCall
<1>6. ASSUME NEW a \in Agents, EventRead(a) PROVE (Handles /\ HandlesValid)'
  BY <1>6, OpsAssumption DEF EventRead, MayCall
<1>7. ASSUME NEW a \in Agents, Take(a) PROVE (Handles /\ HandlesValid)'
  BY <1>7, OpsAssumption DEF Take, MayCall
<1>8. ASSUME NEW a \in Agents, DirectTake(a) PROVE (Handles /\ HandlesValid)'
  BY <1>8, OpsAssumption DEF DirectTake, MayCall
<1>9. ASSUME NEW a \in Agents, Destroy(a) PROVE (Handles /\ HandlesValid)'
  BY <1>9, OpsAssumption DEF Destroy, MayCall
<1>10. ASSUME NEW a \in Agents, AddLock(a) PROVE (Handles /\ HandlesValid)'
  BY <1>10 DEF AddLock, Lock
<1>11. ASSUME NEW a \in Agents, AddPost(a) PROVE (Handles /\ HandlesValid)'
  BY <1>11 DEF AddPost
<1>12. ASSUME NEW a \in Agents, AddPostFails(a) PROVE (Handles /\ HandlesValid)'
  BY <1>12 DEF AddPostFails, Back
<1>13. ASSUME NEW a \in Agents, AddInsert(a) PROVE (Handles /\ HandlesValid)'
  BY <1>13 DEF AddInsert, Back
<1>14. ASSUME NEW a \in Agents, RegLock(a) PROVE (Handles /\ HandlesValid)'
  BY <1>14 DEF RegLock, Lock
<1>15. ASSUME NEW a \in Agents, RegInsert(a) PROVE (Handles /\ HandlesValid)'
  BY <1>15 DEF RegInsert, Back
<1>16. ASSUME NEW a \in Agents, RegInsertFails(a) PROVE (Handles /\ HandlesValid)'
  BY <1>16 DEF RegInsertFails
<1>17. ASSUME NEW a \in Agents, RegCancel(a) PROVE (Handles /\ HandlesValid)'
  BY <1>17 DEF RegCancel, Cancel
<1>18. ASSUME NEW a \in Agents, RegJoin(a) PROVE (Handles /\ HandlesValid)'
  <2>1. /\ target[a] \in Workers /\ thread[target[a]] = "exited"
        /\ thread' = [thread EXCEPT ![target[a]] = "free"]
        /\ target' = [target EXCEPT ![a] = None]
        /\ UNCHANGED thread_map
    BY <1>18 DEF RegJoin, Join
  <2>2. PICK l \in {"clear", "run", "init", "idle"} : pc' = [pc EXCEPT ![a] = l]
    BY ONLY RegJoin(a) DEF RegJoin, Back, Goto
  <2>3. a \in Workers => pc[a] # "none" /\ pc'[a] # "none"
    BY <1>18, <2>2 DEF RegJoin
  <2>4. Handles'
    BY <2>1, <2>2, <2>3
  <2>5. HandlesValid'
    BY <2>1, <2>2, <2>3
  <2> QED
    BY <2>4, <2>5
<1>19. ASSUME NEW a \in Agents, InitThread(a) PROVE (Handles /\ HandlesValid)'
  <2>1. PICK w \in Workers : Create(a, w)
    BY <1>19 DEF InitThread, Create
  <2>2. a # w
    BY <1>19, <2>1 DEF InitThread, Create
  <2>3. Handles'
    BY <1>19, <2>1, <2>2 DEF Create, InitThread
  <2>4. HandlesValid'
    BY <1>19, <2>1, <2>2 DEF Create, InitThread
  <2> QED
    BY <2>3, <2>4
<1>20. ASSUME NEW a \in Agents, InitThreadFails(a) PROVE (Handles /\ HandlesValid)'
  BY <1>20 DEF InitThreadFails
<1>21. ASSUME NEW a \in Agents, InitDone(a) PROVE (Handles /\ HandlesValid)'
  BY <1>21 DEF InitDone
<1>22. ASSUME NEW a \in Agents, TakeWait(a) PROVE (Handles /\ HandlesValid)'
  BY <1>22 DEF TakeWait
<1>23. ASSUME NEW a \in Agents, TakeLock(a) PROVE (Handles /\ HandlesValid)'
  BY <1>23, ZenonT(60) DEF TakeLock, Lock
<1>24. ASSUME NEW a \in Agents, TakeOut(a) PROVE (Handles /\ HandlesValid)'
  BY <1>24 DEF TakeOut, Back, Race
<1>25. ASSUME NEW a \in Agents, TqLock(a) PROVE (Handles /\ HandlesValid)'
  BY <1>25, ZenonT(60) DEF TqLock, Lock
<1>26. ASSUME NEW a \in Agents, TqRead(a) PROVE (Handles /\ HandlesValid)'
  BY <1>26 DEF TqRead, Back
<1>27. ASSUME NEW a \in Agents, DestroySem(a) PROVE (Handles /\ HandlesValid)'
  BY <1>27 DEF DestroySem, WaitExit
<1>28. ASSUME NEW a \in Agents, DestroyLock(a) PROVE (Handles /\ HandlesValid)'
  BY <1>28, ZenonT(60) DEF DestroyLock, Lock
<1>29. ASSUME NEW a \in Agents, Clear(a) PROVE (Handles /\ HandlesValid)'
  BY <1>29 DEF Clear, Cancel
<1>30. ASSUME NEW a \in Agents, ClearJoin(a) PROVE (Handles /\ HandlesValid)'
  BY <1>30 DEF ClearJoin, Join
<1>31. ASSUME NEW a \in Agents, ClearDone(a) PROVE (Handles /\ HandlesValid)'
  BY <1>31 DEF ClearDone
<1>32. ASSUME NEW a \in Agents, AbortDone(a) PROVE (Handles /\ HandlesValid)'
  BY <1>32 DEF AbortDone
<1>33. ASSUME NEW a \in Agents, DestroyPost(a) PROVE (Handles /\ HandlesValid)'
  BY <1>33 DEF DestroyPost, PostExit
<1>34. ASSUME NEW a \in Agents, DestroyFree(a) PROVE (Handles /\ HandlesValid)'
  BY <1>34 DEF DestroyFree
<1>35. ASSUME NEW w \in Workers, WaitIn(w) PROVE (Handles /\ HandlesValid)'
  BY <1>35 DEF WaitIn
<1>36. ASSUME NEW w \in Workers, LockIn(w) PROVE (Handles /\ HandlesValid)'
  BY <1>36 DEF LockIn, Lock
<1>37. ASSUME NEW w \in Workers, TakeIn(w) PROVE (Handles /\ HandlesValid)'
  BY <1>37 DEF TakeIn
<1>38. ASSUME NEW w \in Workers, RunTask(w) PROVE (Handles /\ HandlesValid)'
  BY <1>38 DEF RunTask
<1>39. ASSUME NEW w \in Workers, LockOut(w) PROVE (Handles /\ HandlesValid)'
  BY <1>39 DEF LockOut, Lock
<1>40. ASSUME NEW w \in Workers, PostOut(w) PROVE (Handles /\ HandlesValid)'
  BY <1>40 DEF PostOut
<1>41. ASSUME NEW w \in Workers, PostOutFails(w) PROVE (Handles /\ HandlesValid)'
  BY <1>41 DEF PostOutFails
<1>42. ASSUME NEW w \in Workers, InsertOut(w) PROVE (Handles /\ HandlesValid)'
  BY <1>42 DEF InsertOut, Race
<1>43. ASSUME NEW w \in Workers, Event(w) PROVE (Handles /\ HandlesValid)'
  BY <1>43 DEF Event
<1>44. ASSUME NEW w \in Workers, Die(w) PROVE (Handles /\ HandlesValid)'
  BY <1>44 DEF Die
<1>45. ASSUME NEW w \in Workers, RunExit(w) PROVE (Handles /\ HandlesValid)'
  <2>1. CASE w \in canceled
    <3>1. /\ thread' = [thread EXCEPT ![w] = "exited"]
          /\ pc' = [pc EXCEPT ![w] = "none"]
      BY ONLY RunExit(w), <2>1 DEF RunExit, Goto
    <3> QED
      BY <1>45, <3>1 DEF RunExit
  <2>2. CASE w \notin canceled
    <3>1. /\ UNCHANGED thread
          /\ pc' = [pc EXCEPT ![w] = "exit_sem"]
      BY ONLY RunExit(w), <2>2 DEF RunExit, Goto
    <3> QED
      BY <1>45, <3>1 DEF RunExit
  <2> QED
    BY <2>1, <2>2
<1>46. ASSUME NEW w \in Workers, ExitSem(w) PROVE (Handles /\ HandlesValid)'
  BY <1>46 DEF ExitSem, WaitExit
<1>47. ASSUME NEW w \in Workers, ExitLock(w) PROVE (Handles /\ HandlesValid)'
  BY <1>47 DEF ExitLock, Lock
<1>48. ASSUME NEW w \in Workers, ExitTake(w) PROVE (Handles /\ HandlesValid)'
  BY <1>48 DEF ExitTake
<1>49. ASSUME NEW w \in Workers, ExitPost(w) PROVE (Handles /\ HandlesValid)'
  <2>1. CASE PostExit(w, "exit_post_own", "leave_own")
    BY <2>1 DEF PostExit
  <2>2. CASE PostExit(w, "exit_post_lost", "leave_lost")
    BY <2>2 DEF PostExit
  <2> QED
    BY <1>49, <2>1, <2>2 DEF ExitPost
<1>50. ASSUME NEW w \in Workers, Leave(w) PROVE (Handles /\ HandlesValid)'
  BY <1>50 DEF Leave
<1> QED
BY ONLY [Next]_vars, <1>1, <1>2, <1>3, <1>4, <1>5, <1>6, <1>7, <1>8, <1>9,
     <1>10, <1>11, <1>12, <1>13, <1>14, <1>15, <1>16, <1>17, <1>18, <1>19,
     <1>20, <1>21, <1>22, <1>23, <1>24, <1>25, <1>26, <1>27, <1>28, <1>29,
     <1>30, <1>31, <1>32, <1>33, <1>34, <1>35, <1>36, <1>37, <1>38, <1>39,
     <1>40, <1>41, <1>42, <1>43, <1>44, <1>45, <1>46, <1>47, <1>48, <1>49,
     <1>50
     DEF Next, Call, Continue, Work

\* No client but the creator is in threadpool_destroy(), and none calls the pool
\* meanwhile; nobody joins in threadpool_add_thread() unless map_insert() fails.
LEMMA DestructionStep == TypeInv /\ Startup /\ Destruction /\ Joiners /\ [Next]_vars => (Destruction /\ Joiners)'
<1> SUFFICES ASSUME TypeInv /\ Startup /\ Destruction /\ Joiners, [Next]_vars PROVE (Destruction /\ Joiners)'
  OBVIOUS
<1> USE ThreadsAssumption DEF TypeInv, TypeOK, PcData, Agents
<1> USE DEF ClientPcs, WorkerPcs, Leaving, At, Goto, Acquire, Release
<1> USE DEF handVars, queueVars, semVars, threadVars, eventVars, taskVars
<1> USE DEF Startup, Destruction, Joiners, DestroyPcs
<1>1. CASE UNCHANGED vars
  BY <1>1 DEF vars
<1>2. ASSUME NEW a \in Agents, AddTask(a) PROVE (Destruction /\ Joiners)'
  BY <1>2, OpsAssumption DEF AddTask, MayCall
<1>3. ASSUME NEW a \in Agents, RemoveThread(a) PROVE (Destruction /\ Joiners)'
  BY <1>3, OpsAssumption DEF RemoveThread, MayCall
<1>4. ASSUME NEW a \in Agents, AddThread(a) PROVE (Destruction /\ Joiners)'
  BY <1>4, OpsAssumption DEF AddThread, MayCall, Create
<1>5. ASSUME NEW a \in Agents, TasksQueued(a) PROVE (Destruction /\ Joiners)'
  BY <1>5, OpsAssumption DEF TasksQueued, MayCall
<1>6. ASSUME NEW a \in Agents, EventRead(a) PROVE (Destruction /\ Joiners)'
  BY <1>6, OpsAssumption DEF EventRead, MayCall
<1>7. ASSUME NEW a \in Agents, Take(a) PROVE (Destruction /\ Joiners)'
  BY <1>7, OpsAssumption DEF Take, MayCall
<1>8. ASSUME NEW a \in Agents, DirectTake(a) PROVE (Destruction /\ Joiners)'
  BY <1>8, OpsAssumption DEF DirectTake, MayCall
<1>9. ASSUME NEW a \in Agents, Destroy(a) PROVE (Destruction /\ Joiners)'
  BY <1>9, OpsAssumption DEF Destroy, MayCall
<1>10. ASSUME NEW a \in Agents, AddLock(a) PROVE (Destruction /\ Joiners)'
  BY <1>10 DEF AddLock, Lock
<1>11. ASSUME NEW a \in Agents, AddPost(a) PROVE (Destruction /\ Joiners)'
  BY <1>11 DEF AddPost
<1>12. ASSUME NEW a \in Agents, AddPostFails(a) PROVE (Destruction /\ Joiners)'
  BY <1>12 DEF AddPostFails, Back
<1>13. ASSUME NEW a \in Agents, AddInsert(a) PROVE (Destruction /\ Joiners)'
  BY <1>13 DEF AddInsert, Back
<1>14. ASSUME NEW a \in Agents, RegLock(a) PROVE (Destruction /\ Joiners)'
  BY <1>14 DEF RegLock, Lock
<1>15. ASSUME NEW a \in Agents, RegInsert(a) PROVE (Destruction /\ Joiners)'
  BY <1>15 DEF RegInsert, Back
<1>16. ASSUME NEW a \in Agents, RegInsertFails(a) PROVE (Destruction /\ Joiners)'
  BY <1>16 DEF RegInsertFails
<1>17. ASSUME NEW a \in Agents, RegCancel(a) PROVE (Destruction /\ Joiners)'
  BY <1>17 DEF RegCancel, Cancel
<1>18. ASSUME NEW a \in Agents, RegJoin(a) PROVE (Destruction /\ Joiners)'
  BY <1>18 DEF RegJoin, Back, Join
<1>19. ASSUME NEW a \in Agents, InitThread(a) PROVE (Destruction /\ Joiners)'
  <2>1. PICK w \in Workers : Create(a, w)
    BY <1>19 DEF InitThread, Create
  <2>2. a # w
    BY <1>19, <2>1 DEF InitThread, Create
  <2>3. Destruction'
    BY <1>19, <2>1, <2>2 DEF Create, InitThread
  <2>4. Joiners'
    BY <1>19, <2>1, <2>2, ZenonT(60) DEF Create, InitThread
  <2> QED
    BY <2>3, <2>4
<1>20. ASSUME NEW a \in Agents, InitThreadFails(a) PROVE (Destruction /\ Joiners)'
  BY <1>20 DEF InitThreadFails
<1>21. ASSUME NEW a \in Agents, InitDone(a) PROVE (Destruction /\ Joiners)'
  BY <1>21 DEF InitDone
<1>22. ASSUME NEW a \in Agents, TakeWait(a) PROVE (Destruction /\ Joiners)'
  BY <1>22 DEF TakeWait
<1>23. ASSUME NEW a \in Agents, TakeLock(a) PROVE (Destruction /\ Joiners)'
  BY <1>23 DEF TakeLock, Lock
<1>24. ASSUME NEW a \in Agents, TakeOut(a) PROVE (Destruction /\ Joiners)'
  BY <1>24 DEF TakeOut, Back, Race
<1>25. ASSUME NEW a \in Agents, TqLock(a) PROVE (Destruction /\ Joiners)'
  BY <1>25 DEF TqLock, Lock
<1>26. ASSUME NEW a \in Agents, TqRead(a) PROVE (Destruction /\ Joiners)'
  BY <1>26 DEF TqRead, Back
<1>27. ASSUME NEW a \in Agents, DestroySem(a) PROVE (Destruction /\ Joiners)'
  BY <1>27 DEF DestroySem, WaitExit
<1>28. ASSUME NEW a \in Agents, DestroyLock(a) PROVE (Destruction /\ Joiners)'
  BY <1>28 DEF DestroyLock, Lock
<1>29. ASSUME NEW a \in Agents, Clear(a) PROVE (Destruction /\ Joiners)'
  BY <1>29 DEF Clear, Cancel
<1>30. ASSUME NEW a \in Agents, ClearJoin(a) PROVE (Destruction /\ Joiners)'
  BY <1>30 DEF ClearJoin, Join
<1>31. ASSUME NEW a \in Agents, ClearDone(a) PROVE (Destruction /\ Joiners)'
  BY <1>31 DEF ClearDone
<1>32. ASSUME NEW a \in Agents, AbortDone(a) PROVE (Destruction /\ Joiners)'
  BY <1>32 DEF AbortDone
<1>33. ASSUME NEW a \in Agents, DestroyPost(a) PROVE (Destruction /\ Joiners)'
  BY <1>33 DEF DestroyPost, PostExit
<1>34. ASSUME NEW a \in Agents, DestroyFree(a) PROVE (Destruction /\ Joiners)'
  BY <1>34, ZenonT(60) DEF DestroyFree
<1>35. ASSUME NEW w \in Workers, WaitIn(w) PROVE (Destruction /\ Joiners)'
  BY <1>35 DEF WaitIn
<1>36. ASSUME NEW w \in Workers, LockIn(w) PROVE (Destruction /\ Joiners)'
  BY <1>36 DEF LockIn, Lock
<1>37. ASSUME NEW w \in Workers, TakeIn(w) PROVE (Destruction /\ Joiners)'
  BY <1>37 DEF TakeIn
<1>38. ASSUME NEW w \in Workers, RunTask(w) PROVE (Destruction /\ Joiners)'
  BY <1>38 DEF RunTask
<1>39. ASSUME NEW w \in Workers, LockOut(w) PROVE (Destruction /\ Joiners)'
  BY <1>39 DEF LockOut, Lock
<1>40. ASSUME NEW w \in Workers, PostOut(w) PROVE (Destruction /\ Joiners)'
  BY <1>40 DEF PostOut
<1>41. ASSUME NEW w \in Workers, PostOutFails(w) PROVE (Destruction /\ Joiners)'
  BY <1>41 DEF PostOutFails
<1>42. ASSUME NEW w \in Workers, InsertOut(w) PROVE (Destruction /\ Joiners)'
  BY <1>42 DEF InsertOut, Race
<1>43. ASSUME NEW w \in Workers, Event(w) PROVE (Destruction /\ Joiners)'
  BY <1>43 DEF Event
<1>44. ASSUME NEW w \in Workers, Die(w) PROVE (Destruction /\ Joiners)'
  BY <1>44 DEF Die
<1>45. ASSUME NEW w \in Workers, RunExit(w) PROVE (Destruction /\ Joiners)'
  BY <1>45 DEF RunExit
<1>46. ASSUME NEW w \in Workers, ExitSem(w) PROVE (Destruction /\ Joiners)'
  BY <1>46 DEF ExitSem, WaitExit
<1>47. ASSUME NEW w \in Workers, ExitLock(w) PROVE (Destruction /\ Joiners)'
  BY <1>47 DEF ExitLock, Lock
<1>48. ASSUME NEW w \in Workers, ExitTake(w) PROVE (Destruction /\ Joiners)'
  BY <1>48 DEF ExitTake
<1>49. ASSUME NEW w \in Workers, ExitPost(w) PROVE (Destruction /\ Joiners)'
  BY <1>49 DEF ExitPost, PostExit
<1>50. ASSUME NEW w \in Workers, Leave(w) PROVE (Destruction /\ Joiners)'
  BY <1>50 DEF Leave
<1> QED
BY ONLY [Next]_vars, <1>1, <1>2, <1>3, <1>4, <1>5, <1>6, <1>7, <1>8, <1>9,
     <1>10, <1>11, <1>12, <1>13, <1>14, <1>15, <1>16, <1>17, <1>18, <1>19,
     <1>20, <1>21, <1>22, <1>23, <1>24, <1>25, <1>26, <1>27, <1>28, <1>29,
     <1>30, <1>31, <1>32, <1>33, <1>34, <1>35, <1>36, <1>37, <1>38, <1>39,
     <1>40, <1>41, <1>42, <1>43, <1>44, <1>45, <1>46, <1>47, <1>48, <1>49,
     <1>50
     DEF Next, Call, Continue, Work

\* No step loses a handle: as long as nobody is cancelled while joining, a thread
\* is given up only by its joining or by its own pthread_detach().
LEMMA TrackedStep == TypeInv /\ Handles /\ HandlesValid /\ Joiners /\ JoinsUndisturbed /\ ThreadsTracked /\ [Next]_vars => ThreadsTracked'
<1> SUFFICES ASSUME TypeInv /\ Handles /\ HandlesValid /\ Joiners /\ JoinsUndisturbed /\ ThreadsTracked, [Next]_vars PROVE ThreadsTracked'
  OBVIOUS
<1> USE ThreadsAssumption DEF TypeInv, TypeOK, PcData, Agents
<1> USE DEF ClientPcs, WorkerPcs, Leaving, At, Goto, Acquire, Release
<1> USE DEF handVars, queueVars, semVars, threadVars, eventVars, taskVars
<1> USE DEF Handles, HandlesValid, Joiners, JoinsUndisturbed, ThreadsTracked
<1>1. CASE UNCHANGED vars
  BY <1>1 DEF vars
<1>2. ASSUME NEW a \in Agents, AddTask(a) PROVE ThreadsTracked'
  BY <1>2, OpsAssumption DEF AddTask, MayCall
<1>3. ASSUME NEW a \in Agents, RemoveThread(a) PROVE ThreadsTracked'
  BY <1>3, OpsAssumption DEF RemoveThread, MayCall
<1>4. ASSUME NEW a \in Agents, AddThread(a) PROVE ThreadsTracked'
  <2>1. PICK w \in Workers : Create(a, w)
    BY <1>4 DEF AddThread, Create
  <2>2. a # w
    BY <1>4, <2>1, OpsAssumption DEF AddThread, MayCall, Create
  <2>3. target[a] = None
    BY <1>4 DEF AddThread, MayCall
  <2>4. /\ thread' = [thread EXCEPT ![w] = "live"]
        /\ target' = [target EXCEPT ![a] = w]
        /\ pc' = [pc EXCEPT ![a] = "reg_lock", ![w] = "wait_in"]
        /\ thread_map' = thread_map /\ pc[w] = "none"
    BY ONLY <2>1 DEF Create, At
  <2>5. \A v \in Workers : pc[v] \in {"exit_post_own", "leave_own"} => pc'[v] = pc[v]
    BY <1>4, <2>2, <2>4 DEF AddThread, MayCall
  <2> QED
    BY <2>2, <2>3, <2>4, <2>5
<1>5. ASSUME NEW a \in Agents, TasksQueued(a) PROVE ThreadsTracked'
  BY <1>5, OpsAssumption DEF TasksQueued, MayCall
<1>6. ASSUME NEW a \in Agents, EventRead(a) PROVE ThreadsTracked'
  BY <1>6, OpsAssumption DEF EventRead, MayCall
<1>7. ASSUME NEW a \in Agents, Take(a) PROVE ThreadsTracked'
  BY <1>7, OpsAssumption DEF Take, MayCall
<1>8. ASSUME NEW a \in Agents, DirectTake(a) PROVE ThreadsTracked'
  BY <1>8, OpsAssumption DEF DirectTake, MayCall
<1>9. ASSUME NEW a \in Agents, Destroy(a) PROVE ThreadsTracked'
  BY <1>9, OpsAssumption DEF Destroy, MayCall
<1>10. ASSUME NEW a \in Agents, AddLock(a) PROVE ThreadsTracked'
  BY <1>10 DEF AddLock, Lock
<1>11. ASSUME NEW a \in Agents, AddPost(a) PROVE ThreadsTracked'
  BY <1>11 DEF AddPost
<1>12. ASSUME NEW a \in Agents, AddPostFails(a) PROVE ThreadsTracked'
  BY <1>12 DEF AddPostFails, Back
<1>13. ASSUME NEW a \in Agents, AddInsert(a) PROVE ThreadsTracked'
  BY <1>13 DEF AddInsert, Back
<1>14. ASSUME NEW a \in Agents, RegLock(a) PROVE ThreadsTracked'
  BY <1>14 DEF RegLock, Lock
<1>15. ASSUME NEW a \in Agents, RegInsert(a) PROVE ThreadsTracked'
  BY <1>15 DEF RegInsert, Back
<1>16. ASSUME NEW a \in Agents, RegInsertFails(a) PROVE ThreadsTracked'
  BY <1>16 DEF RegInsertFails
<1>17. ASSUME NEW a \in Agents, RegCancel(a) PROVE ThreadsTracked'
  BY <1>17 DEF RegCancel, Cancel
<1>18. ASSUME NEW a \in Agents, RegJoin(a) PROVE ThreadsTracked'
  <2>1. /\ target[a] \in Workers /\ thread[target[a]] = "exited"
        /\ thread' = [thread EXCEPT ![target[a]] = "free"]
        /\ target' = [target EXCEPT ![a] = None]
        /\ UNCHANGED thread_map
    BY <1>18 DEF RegJoin, Join
  <2>2. \A v \in Workers : pc[v] \in {"exit_post_own", "leave_own"} => pc'[v] = pc[v]
    BY <1>18 DEF RegJoin
  <2> QED
    BY <2>1, <2>2
<1>19. ASSUME NEW a \in Agents, InitThread(a) PROVE ThreadsTracked'
  <2>1. PICK w \in Workers : Create(a, w)
    BY <1>19 DEF InitThread, Create
  <2>2. a # w
    BY <1>19, <2>1 DEF InitThread, Create
  <2>3. target[a] = None
    BY <1>19 DEF InitThread
  <2>4. /\ thread' = [thread EXCEPT ![w] = "live"]
        /\ target' = [target EXCEPT ![a] = w]
        /\ pc' = [pc EXCEPT ![a] = "reg_lock", ![w] = "wait_in"]
        /\ thread_map' = thread_map /\ pc[w] = "none"
    BY ONLY <2>1 DEF Create, At
  <2>5. \A v \in Workers : pc[v] \in {"exit_post_own", "leave_own"} => pc'[v] = pc[v]
    BY <1>19, <2>2, <2>4 DEF InitThread
  <2> QED
    BY <2>2, <2>3, <2>4, <2>5
<1>20. ASSUME NEW a \in Agents, InitThreadFails(a) PROVE ThreadsTracked'
  BY <1>20 DEF InitThreadFails
<1>21. ASSUME NEW a \in Agents, InitDone(a) PROVE ThreadsTracked'
  BY <1>21 DEF InitDone
<1>22. ASSUME NEW a \in Agents, TakeWait(a) PROVE ThreadsTracked'
  BY <1>22 DEF TakeWait
<1>23. ASSUME NEW a \in Agents, TakeLock(a) PROVE ThreadsTracked'
  BY <1>23 DEF TakeLock, Lock
<1>24. ASSUME NEW a \in Agents, TakeOut(a) PROVE ThreadsTracked'
  BY <1>24 DEF TakeOut, Back, Race
<1>25. ASSUME NEW a \in Agents, TqLock(a) PROVE ThreadsTracked'
  BY <1>25 DEF TqLock, Lock
<1>26. ASSUME NEW a \in Agents, TqRead(a) PROVE ThreadsTracked'
  BY <1>26 DEF TqRead, Back
<1>27. ASSUME NEW a \in Agents, DestroySem(a) PROVE ThreadsTracked'
  BY <1>27 DEF DestroySem, WaitExit
<1>28. ASSUME NEW a \in Agents, DestroyLock(a) PROVE ThreadsTracked'
  BY <1>28 DEF DestroyLock, Lock
<1>29. ASSUME NEW a \in Agents, Clear(a) PROVE ThreadsTracked'
  BY <1>29, SMTT(30) DEF Clear, Cancel
<1>30. ASSUME NEW a \in Agents, ClearJoin(a) PROVE ThreadsTracked'
  <2>1. /\ target[a] \in Workers /\ thread[target[a]] = "exited"
        /\ thread' = [thread EXCEPT ![target[a]] = "free"]
        /\ target' = [target EXCEPT ![a] = None]
        /\ UNCHANGED thread_map
    BY <1>30 DEF ClearJoin, Join
  <2>2. \A v \in Workers : pc[v] \in {"exit_post_own", "leave_own"} => pc'[v] = pc[v]
    BY <1>30 DEF ClearJoin
  <2> QED
    BY <2>1, <2>2
<1>31. ASSUME NEW a \in Agents, ClearDone(a) PROVE ThreadsTracked'
  BY <1>31 DEF ClearDone
<1>32. ASSUME NEW a \in Agents, AbortDone(a) PROVE ThreadsTracked'
  BY <1>32 DEF AbortDone
<1>33. ASSUME NEW a \in Agents, DestroyPost(a) PROVE ThreadsTracked'
  BY <1>33 DEF DestroyPost, PostExit
<1>34. ASSUME NEW a \in Agents, DestroyFree(a) PROVE ThreadsTracked'
  BY <1>34 DEF DestroyFree
<1>35. ASSUME NEW w \in Workers, WaitIn(w) PROVE ThreadsTracked'
  BY <1>35 DEF WaitIn
<1>36. ASSUME NEW w \in Workers, LockIn(w) PROVE ThreadsTracked'
  BY <1>36 DEF LockIn, Lock
<1>37. ASSUME NEW w \in Workers, TakeIn(w) PROVE ThreadsTracked'
  BY <1>37 DEF TakeIn
<1>38. ASSUME NEW w \in Workers, RunTask(w) PROVE ThreadsTracked'
  BY <1>38 DEF RunTask
<1>39. ASSUME NEW w \in Workers, LockOut(w) PROVE ThreadsTracked'
  BY <1>39 DEF LockOut, Lock
<1>40. ASSUME NEW w \in Workers, PostOut(w) PROVE ThreadsTracked'
  BY <1>40 DEF PostOut
<1>41. ASSUME NEW w \in Workers, PostOutFails(w) PROVE ThreadsTracked'
  BY <1>41 DEF PostOutFails
<1>42. ASSUME NEW w \in Workers, InsertOut(w) PROVE ThreadsTracked'
  BY <1>42 DEF InsertOut, Race
<1>43. ASSUME NEW w \in Workers, Event(w) PROVE ThreadsTracked'
  BY <1>43 DEF Event
<1>44. ASSUME NEW w \in Workers, Die(w) PROVE ThreadsTracked'
  <2>1. target[w] = None
    BY <1>44 DEF Die
  <2>2. /\ thread' = [thread EXCEPT ![w] = "exited"]
        /\ target' = [target EXCEPT ![w] = None]
        /\ thread_map' = thread_map
        /\ pc' = [pc EXCEPT ![w] = "none"]
    BY ONLY Die(w) DEF Die, Goto
  <2>3. w \in thread_map \/ \E a \in Agents : target[a] = w
    BY <1>44 DEF Die
  <2> QED
    BY <2>1, <2>2, <2>3
<1>45. ASSUME NEW w \in Workers, RunExit(w) PROVE ThreadsTracked'
  <2>1. CASE w \in canceled
    <3>1. /\ thread' = [thread EXCEPT ![w] = "exited"]
          /\ pc' = [pc EXCEPT ![w] = "none"]
      BY ONLY RunExit(w), <2>1 DEF RunExit, Goto
    <3> QED
      BY <1>45, <3>1 DEF RunExit
  <2>2. CASE w \notin canceled
    <3>1. /\ UNCHANGED thread
          /\ pc' = [pc EXCEPT ![w] = "exit_sem"]
      BY ONLY RunExit(w), <2>2 DEF RunExit, Goto
    <3> QED
      BY <1>45, <3>1 DEF RunExit
  <2> QED
    BY <2>1, <2>2
<1>46. ASSUME NEW w \in Workers, ExitSem(w) PROVE ThreadsTracked'
  BY <1>46 DEF ExitSem, WaitExit
<1>47. ASSUME NEW w \in Workers, ExitLock(w) PROVE ThreadsTracked'
  BY <1>47 DEF ExitLock, Lock
<1>48. ASSUME NEW w \in Workers, ExitTake(w) PROVE ThreadsTracked'
  BY <1>48 DEF ExitTake
<1>49. ASSUME NEW w \in Workers, ExitPost(w) PROVE ThreadsTracked'
  <2>1. CASE PostExit(w, "exit_post_own", "leave_own")
    BY <2>1 DEF PostExit
  <2>2. CASE PostExit(w, "exit_post_lost", "leave_lost")
    BY <2>2 DEF PostExit
  <2> QED
    BY <1>49, <2>1, <2>2 DEF ExitPost
<1>50. ASSUME NEW w \in Workers, Leave(w) PROVE ThreadsTracked'
  BY <1>50, SMTT(30) DEF Leave
<1> QED
BY ONLY [Next]_vars, <1>1, <1>2, <1>3, <1>4, <1>5, <1>6, <1>7, <1>8, <1>9,
     <1>10, <1>11, <1>12, <1>13, <1>14, <1>15, <1>16, <1>17, <1>18, <1>19,
     <1>20, <1>21, <1>22, <1>23, <1>24, <1>25, <1>26, <1>27, <1>28, <1>29,
     <1>30, <1>31, <1>32, <1>33, <1>34, <1>35, <1>36, <1>37, <1>38, <1>39,
     <1>40, <1>41, <1>42, <1>43, <1>44, <1>45, <1>46, <1>47, <1>48, <1>49,
     <1>50
     DEF Next, Call, Continue, Work

\* A step that enters or leaves no section of sem_exit keeps ExitExclusive.
LEMMA ExitFrame ==
  ASSUME ExitExclusive, UNCHANGED <<sem_exit, ExitHolders>>
  PROVE  ExitExclusive'
BY DEF ExitExclusive

\* The threads in the sections of sem_exit are finitely many.
LEMMA HoldersFinite == IsFiniteSet(ExitHolders) /\ Cardinality(ExitHolders) \in Nat
<1>1. ExitHolders \subseteq Agents
  BY DEF ExitHolders, Agents
<1> QED
  BY <1>1, ThreadsAssumption, FS_Subset, FS_CardinalityType

\* Two different threads are never between sem_wait() and sem_post() of sem_exit.
LEMMA OneHolder ==
  ASSUME ExitExclusive, sem_exit \in Nat, NEW a \in ExitHolders, NEW b \in ExitHolders
  PROVE  a = b
<1> SUFFICES ASSUME a # b PROVE FALSE
  OBVIOUS
<1>1. Cardinality({a}) = 1 /\ IsFiniteSet({a})
  BY FS_Singleton
<1>2. Cardinality({a} \cup {b}) = 2 /\ IsFiniteSet({a} \cup {b})
  BY <1>1, FS_AddElement
<1>3. Cardinality({a} \cup {b}) <= Cardinality(ExitHolders)
  BY HoldersFinite, FS_Subset
<1> QED
  BY <1>2, <1>3, HoldersFinite DEF ExitExclusive

\* The token of sem_exit goes to one retiring thread or to threadpool_destroy(), and
\* comes back.
LEMMA ExitExclusiveStep == TypeInv /\ Startup /\ Destruction /\ ExitExclusive /\ [Next]_vars => ExitExclusive'
<1> SUFFICES ASSUME TypeInv /\ Startup /\ Destruction /\ ExitExclusive, [Next]_vars PROVE ExitExclusive'
  OBVIOUS
<1> USE ThreadsAssumption, ExitFrame DEF TypeInv, TypeOK, PcData, Agents
<1> USE DEF ClientPcs, WorkerPcs, Leaving, At, Goto, Acquire, Release
<1> USE DEF handVars, queueVars, semVars, threadVars, eventVars, taskVars
<1> USE DEF Startup, Destruction, DestroyPcs, ExitHolders
<1>1. CASE UNCHANGED vars
  BY <1>1 DEF vars
<1>2. ASSUME NEW a \in Agents, AddTask(a) PROVE ExitExclusive'
  BY <1>2, OpsAssumption DEF AddTask, MayCall
<1>3. ASSUME NEW a \in Agents, RemoveThread(a) PROVE ExitExclusive'
  BY <1>3, OpsAssumption DEF RemoveThread, MayCall
<1>4. ASSUME NEW a \in Agents, AddThread(a) PROVE ExitExclusive'
  BY <1>4, OpsAssumption DEF AddThread, MayCall, Create
<1>5. ASSUME NEW a \in Agents, TasksQueued(a) PROVE ExitExclusive'
  BY <1>5, OpsAssumption DEF TasksQueued, MayCall
<1>6. ASSUME NEW a \in Agents, EventRead(a) PROVE ExitExclusive'
  BY <1>6, OpsAssumption DEF EventRead, MayCall
<1>7. ASSUME NEW a \in Agents, Take(a) PROVE ExitExclusive'
  BY <1>7, OpsAssumption DEF Take, MayCall
<1>8. ASSUME NEW a \in Agents, DirectTake(a) PROVE ExitExclusive'
  BY <1>8, OpsAssumption DEF DirectTake, MayCall
<1>9. ASSUME NEW a \in Agents, Destroy(a) PROVE ExitExclusive'
  BY <1>9, OpsAssumption DEF Destroy, MayCall
<1>10. ASSUME NEW a \in Agents, AddLock(a) PROVE ExitExclusive'
  BY <1>10 DEF AddLock, Lock
<1>11. ASSUME NEW a \in Agents, AddPost(a) PROVE ExitExclusive'
  BY <1>11 DEF AddPost
<1>12. ASSUME NEW a \in Agents, AddPostFails(a) PROVE ExitExclusive'
  BY <1>12 DEF AddPostFails, Back
<1>13. ASSUME NEW a \in Agents, AddInsert(a) PROVE ExitExclusive'
  BY <1>13 DEF AddInsert, Back
<1>14. ASSUME NEW a \in Agents, RegLock(a) PROVE ExitExclusive'
  BY <1>14 DEF RegLock, Lock
<1>15. ASSUME NEW a \in Agents, RegInsert(a) PROVE ExitExclusive'
  BY <1>15 DEF RegInsert, Back
<1>16. ASSUME NEW a \in Agents, RegInsertFails(a) PROVE ExitExclusive'
  BY <1>16 DEF RegInsertFails
<1>17. ASSUME NEW a \in Agents, RegCancel(a) PROVE ExitExclusive'
  BY <1>17 DEF RegCancel, Cancel
<1>18. ASSUME NEW a \in Agents, RegJoin(a) PROVE ExitExclusive'
  BY <1>18 DEF RegJoin, Back, Join
<1>19. ASSUME NEW a \in Agents, InitThread(a) PROVE ExitExclusive'
  BY <1>19 DEF InitThread, Create
<1>20. ASSUME NEW a \in Agents, InitThreadFails(a) PROVE ExitExclusive'
  <2>1. a = Creator /\ pool = "init"
    BY <1>20 DEF InitThreadFails
  <2> QED
    BY <1>20, <2>1 DEF InitThreadFails
<1>21. ASSUME NEW a \in Agents, InitDone(a) PROVE ExitExclusive'
  <2>1. a = Creator /\ pool = "init"
    BY <1>21 DEF InitDone
  <2> QED
    BY <1>21, <2>1 DEF InitDone
<1>22. ASSUME NEW a \in Agents, TakeWait(a) PROVE ExitExclusive'
  BY <1>22 DEF TakeWait
<1>23. ASSUME NEW a \in Agents, TakeLock(a) PROVE ExitExclusive'
  BY <1>23 DEF TakeLock, Lock
<1>24. ASSUME NEW a \in Agents, TakeOut(a) PROVE ExitExclusive'
  BY <1>24 DEF TakeOut, Back, Race
<1>25. ASSUME NEW a \in Agents, TqLock(a) PROVE ExitExclusive'
  BY <1>25 DEF TqLock, Lock
<1>26. ASSUME NEW a \in Agents, TqRead(a) PROVE ExitExclusive'
  BY <1>26 DEF TqRead, Back
<1>27. ASSUME NEW a \in Agents, DestroySem(a) PROVE ExitExclusive'
  <2>0. a = Creator /\ pool = "closing" /\ a \notin Workers
    BY <1>27 DEF DestroySem, WaitExit
  <2>1. /\ a \notin ExitHolders /\ ExitHolders' = ExitHolders \cup {a}
        /\ sem_exit' = sem_exit - 1
    <3>1. /\ pc[a] = "destroy_sem" /\ pc' = [pc EXCEPT ![a] = "destroy_lock"]
          /\ pool' = pool /\ sem_exit' = sem_exit - 1
      BY ONLY DestroySem(a) DEF DestroySem, WaitExit, At, Goto
    <3>2. \A w \in Workers : pc'[w] = pc[w]
      BY <2>0, <3>1
    <3>3. \A c \in Clients \ {a} : pc'[c] = pc[c]
      BY <2>0, <3>1
    <3> QED
      BY ONLY ThreadsAssumption, TypeOK, <2>0, <3>1, <3>2, <3>3 DEF ExitHolders, TypeOK, Agents
  <2> HIDE DEF ExitHolders
  <2>2. Cardinality(ExitHolders)' = Cardinality(ExitHolders) + 1
    BY ONLY <2>1, HoldersFinite, Enter
  <2> QED
    BY ONLY <2>1, <2>2, ExitExclusive, TypeOK, HoldersFinite DEF ExitExclusive, TypeOK
<1>28. ASSUME NEW a \in Agents, DestroyLock(a) PROVE ExitExclusive'
  BY <1>28 DEF DestroyLock, Lock
<1>29. ASSUME NEW a \in Agents, Clear(a) PROVE ExitExclusive'
  BY <1>29 DEF Clear, Cancel
<1>30. ASSUME NEW a \in Agents, ClearJoin(a) PROVE ExitExclusive'
  BY <1>30 DEF ClearJoin, Join
<1>31. ASSUME NEW a \in Agents, ClearDone(a) PROVE ExitExclusive'
  BY <1>31 DEF ClearDone
<1>32. ASSUME NEW a \in Agents, AbortDone(a) PROVE ExitExclusive'
  BY <1>32 DEF AbortDone
<1>33. ASSUME NEW a \in Agents, DestroyPost(a) PROVE ExitExclusive'
  <2>1. /\ a \in ExitHolders /\ ExitHolders' = ExitHolders \ {a}
        /\ sem_exit' = sem_exit + 1
    <3>1. /\ a \in Clients /\ pc[a] = "destroy_post" /\ pool' = pool
          /\ pc' = [pc EXCEPT ![a] = "destroy_free"]
          /\ sem_exit' = sem_exit + 1
      BY <1>33 DEF DestroyPost, PostExit
    <3>2. pc[a] = "destroy_post" /\ pc'[a] = "destroy_free"
      BY <3>1
    <3>3. \A b \in Agents \ {a} : pc'[b] = pc[b]
      BY <3>1
    <3> QED
      BY ONLY <3>1, <3>2, <3>3 DEF ExitHolders, Agents
  <2> HIDE DEF ExitHolders
  <2>2. Cardinality(ExitHolders)' = Cardinality(ExitHolders) - 1
    BY ONLY <2>1, HoldersFinite, Exit
  <2> QED
    BY ONLY <2>1, <2>2, ExitExclusive, TypeOK, HoldersFinite DEF ExitExclusive, TypeOK
<1>34. ASSUME NEW a \in Agents, DestroyFree(a) PROVE ExitExclusive'
  BY <1>34, ZenonT(60) DEF DestroyFree
<1>35. ASSUME NEW w \in Workers, WaitIn(w) PROVE ExitExclusive'
  BY <1>35 DEF WaitIn
<1>36. ASSUME NEW w \in Workers, LockIn(w) PROVE ExitExclusive'
  BY <1>36 DEF LockIn, Lock
<1>37. ASSUME NEW w \in Workers, TakeIn(w) PROVE ExitExclusive'
  BY <1>37 DEF TakeIn
<1>38. ASSUME NEW w \in Workers, RunTask(w) PROVE ExitExclusive'
  BY <1>38 DEF RunTask
<1>39. ASSUME NEW w \in Workers, LockOut(w) PROVE ExitExclusive'
  BY <1>39 DEF LockOut, Lock
<1>40. ASSUME NEW w \in Workers, PostOut(w) PROVE ExitExclusive'
  BY <1>40 DEF PostOut
<1>41. ASSUME NEW w \in Workers, PostOutFails(w) PROVE ExitExclusive'
  BY <1>41 DEF PostOutFails
<1>42. ASSUME NEW w \in Workers, InsertOut(w) PROVE ExitExclusive'
  BY <1>42 DEF InsertOut, Race
<1>43. ASSUME NEW w \in Workers, Event(w) PROVE ExitExclusive'
  BY <1>43 DEF Event
<1>44. ASSUME NEW w \in Workers, Die(w) PROVE ExitExclusive'
  BY <1>44 DEF Die
<1>45. ASSUME NEW w \in Workers, RunExit(w) PROVE ExitExclusive'
  BY <1>45 DEF RunExit
<1>46. ASSUME NEW w \in Workers, ExitSem(w) PROVE ExitExclusive'
  <2>1. /\ w \notin ExitHolders /\ ExitHolders' = ExitHolders \cup {w}
        /\ sem_exit' = sem_exit - 1
    BY <1>46 DEF ExitSem, WaitExit
  <2> HIDE DEF ExitHolders
  <2>2. Cardinality(ExitHolders)' = Cardinality(ExitHolders) + 1
    BY ONLY <2>1, HoldersFinite, Enter
  <2> QED
    BY ONLY <2>1, <2>2, ExitExclusive, TypeOK, HoldersFinite DEF ExitExclusive, TypeOK
<1>47. ASSUME NEW w \in Workers, ExitLock(w) PROVE ExitExclusive'
  BY <1>47 DEF ExitLock, Lock
<1>48. ASSUME NEW w \in Workers, ExitTake(w) PROVE ExitExclusive'
  BY <1>48 DEF ExitTake
<1>49. ASSUME NEW w \in Workers, ExitPost(w) PROVE ExitExclusive'
  <2>1. /\ w \in ExitHolders /\ ExitHolders' = ExitHolders \ {w}
        /\ sem_exit' = sem_exit + 1
    <3>1. CASE PostExit(w, "exit_post_own", "leave_own")
      BY <3>1 DEF PostExit
    <3>2. CASE PostExit(w, "exit_post_lost", "leave_lost")
      BY <3>2 DEF PostExit
    <3> QED
      BY <1>49, <3>1, <3>2 DEF ExitPost
  <2> HIDE DEF ExitHolders
  <2>2. Cardinality(ExitHolders)' = Cardinality(ExitHolders) - 1
    BY ONLY <2>1, HoldersFinite, Exit
  <2> QED
    BY ONLY <2>1, <2>2, ExitExclusive, TypeOK, HoldersFinite DEF ExitExclusive, TypeOK
<1>50. ASSUME NEW w \in Workers, Leave(w) PROVE ExitExclusive'
  BY <1>50 DEF Leave
<1> QED
BY ONLY [Next]_vars, <1>1, <1>2, <1>3, <1>4, <1>5, <1>6, <1>7, <1>8, <1>9,
     <1>10, <1>11, <1>12, <1>13, <1>14, <1>15, <1>16, <1>17, <1>18, <1>19,
     <1>20, <1>21, <1>22, <1>23, <1>24, <1>25, <1>26, <1>27, <1>28, <1>29,
     <1>30, <1>31, <1>32, <1>33, <1>34, <1>35, <1>36, <1>37, <1>38, <1>39,
     <1>40, <1>41, <1>42, <1>43, <1>44, <1>45, <1>46, <1>47, <1>48, <1>49,
     <1>50
     DEF Next, Call, Continue, Work

\* When threadpool_destroy() has emptied the map and holds the token of sem_exit,
\* every thread has ended or has detached itself.
LEMMA NobodyLeft ==
  ASSUME LInv, ThreadsTracked, LastThreads, TasksAddNoThread,
         pc[Creator] = "destroy_post", NEW w \in Workers
  PROVE  pc[w] \in {"none", "leave_own"}
<1> USE ThreadsAssumption
<1>1. TypeOK /\ Handles /\ Destruction /\ Joiners /\ ExitExclusive
  BY DEF LInv, IInv, TypeInv
<1>2. thread_map = {}
  BY DEF LastThreads
<1>3. \A a \in Agents : target[a] = None
  <2>1. \A c \in Clients \ {Creator} : pc[c] = "idle"
    BY <1>1 DEF Destruction, DestroyPcs
  <2>2. \A v \in Workers : pc[v] \notin {"reg_lock", "reg_insert", "reg_cancel", "reg_join"}
    BY <1>1 DEF Joiners, TasksAddNoThread
  <2>3. \A v \in Workers : pc[v] # "clear_join"
    BY <1>1 DEF TypeOK, WorkerPcs, Leaving
  <2> QED
    BY <1>1, <2>1, <2>2, <2>3 DEF Handles, Agents
<1>4. CASE thread[w] = "free"
  BY <1>1, <1>4 DEF Handles
<1>5. CASE thread[w] # "free"
  <2>1. pc[w] \in {"exit_post_own", "leave_own"}
    BY <1>2, <1>3, <1>5 DEF ThreadsTracked, Agents
  <2>2. pc[w] # "exit_post_own"
    <3>1. SUFFICES ASSUME pc[w] = "exit_post_own" PROVE FALSE
      OBVIOUS
    <3>2. w \in ExitHolders /\ Creator \in ExitHolders /\ w # Creator
      BY <3>1 DEF ExitHolders
    <3> QED
      BY <1>1, <3>2, OneHolder DEF TypeOK
  <2> QED
    BY <2>1, <2>2
<1> QED
  BY <1>4, <1>5

\* threadpool_destroy() frees the pool only after the last thread has taken its
\* leave, and nothing starts a thread afterwards.
LEMMA EndStep == LInv /\ ThreadsTracked /\ LastThreads /\ NoUseAfterFree /\ TasksAddNoThread /\ [Next]_vars => (LastThreads /\ NoUseAfterFree)'
<1> SUFFICES ASSUME LInv /\ ThreadsTracked /\ LastThreads /\ NoUseAfterFree /\ TasksAddNoThread, [Next]_vars PROVE (LastThreads /\ NoUseAfterFree)'
  OBVIOUS
<1> USE ThreadsAssumption DEF TypeInv, TypeOK, PcData, Agents
<1> USE DEF ClientPcs, WorkerPcs, Leaving, At, Goto, Acquire, Release
<1> USE DEF handVars, queueVars, semVars, threadVars, eventVars, taskVars
<1> USE DEF LInv, IInv, Handles, Startup, Destruction, DestroyPcs, Joiners
<1> USE DEF TasksAddNoThread, LastThreads, NoUseAfterFree
<1>1. CASE UNCHANGED vars
  BY <1>1 DEF vars
<1>2. ASSUME NEW a \in Agents, AddTask(a) PROVE (LastThreads /\ NoUseAfterFree)'
  BY <1>2, OpsAssumption DEF AddTask, MayCall
<1>3. ASSUME NEW a \in Agents, RemoveThread(a) PROVE (LastThreads /\ NoUseAfterFree)'
  BY <1>3, OpsAssumption DEF RemoveThread, MayCall
<1>4. ASSUME NEW a \in Agents, AddThread(a) PROVE (LastThreads /\ NoUseAfterFree)'
  BY <1>4, OpsAssumption DEF AddThread, MayCall, Create
<1>5. ASSUME NEW a \in Agents, TasksQueued(a) PROVE (LastThreads /\ NoUseAfterFree)'
  BY <1>5, OpsAssumption DEF TasksQueued, MayCall
<1>6. ASSUME NEW a \in Agents, EventRead(a) PROVE (LastThreads /\ NoUseAfterFree)'
  BY <1>6, OpsAssumption DEF EventRead, MayCall
<1>7. ASSUME NEW a \in Agents, Take(a) PROVE (LastThreads /\ NoUseAfterFree)'
  BY <1>7, OpsAssumption DEF Take, MayCall
<1>8. ASSUME NEW a \in Agents, DirectTake(a) PROVE (LastThreads /\ NoUseAfterFree)'
  BY <1>8, OpsAssumption DEF DirectTake, MayCall
<1>9. ASSUME NEW a \in Agents, Destroy(a) PROVE (LastThreads /\ NoUseAfterFree)'
  BY <1>9, OpsAssumption DEF Destroy, MayCall
<1>10. ASSUME NEW a \in Agents, AddLock(a) PROVE (LastThreads /\ NoUseAfterFree)'
  BY <1>10 DEF AddLock, Lock
<1>11. ASSUME NEW a \in Agents, AddPost(a) PROVE (LastThreads /\ NoUseAfterFree)'
  BY <1>11 DEF AddPost
<1>12. ASSUME NEW a \in Agents, AddPostFails(a) PROVE (LastThreads /\ NoUseAfterFree)'
  BY <1>12 DEF AddPostFails, Back
<1>13. ASSUME NEW a \in Agents, AddInsert(a) PROVE (LastThreads /\ NoUseAfterFree)'
  BY <1>13 DEF AddInsert, Back
<1>14. ASSUME NEW a \in Agents, RegLock(a) PROVE (LastThreads /\ NoUseAfterFree)'
  BY <1>14 DEF RegLock, Lock
<1>15. ASSUME NEW a \in Agents, RegInsert(a) PROVE (LastThreads /\ NoUseAfterFree)'
  BY <1>15 DEF RegInsert, Back
<1>16. ASSUME NEW a \in Agents, RegInsertFails(a) PROVE (LastThreads /\ NoUseAfterFree)'
  BY <1>16 DEF RegInsertFails
<1>17. ASSUME NEW a \in Agents, RegCancel(a) PROVE (LastThreads /\ NoUseAfterFree)'
  BY <1>17 DEF RegCancel, Cancel
<1>18. ASSUME NEW a \in Agents, RegJoin(a) PROVE (LastThreads /\ NoUseAfterFree)'
  BY <1>18 DEF RegJoin, Back, Join
<1>19. ASSUME NEW a \in Agents, InitThread(a) PROVE (LastThreads /\ NoUseAfterFree)'
  <2>1. a = Creator /\ pool = "init" /\ pool' = "init"
    BY <1>19, ZenonT(60) DEF InitThread, Create
  <2>2. pc'[Creator] = "reg_lock"
    BY <1>19, <2>1 DEF InitThread, Create
  <2> QED
    BY <2>1, <2>2
<1>20. ASSUME NEW a \in Agents, InitThreadFails(a) PROVE (LastThreads /\ NoUseAfterFree)'
  BY <1>20 DEF InitThreadFails
<1>21. ASSUME NEW a \in Agents, InitDone(a) PROVE (LastThreads /\ NoUseAfterFree)'
  BY <1>21 DEF InitDone
<1>22. ASSUME NEW a \in Agents, TakeWait(a) PROVE (LastThreads /\ NoUseAfterFree)'
  BY <1>22 DEF TakeWait
<1>23. ASSUME NEW a \in Agents, TakeLock(a) PROVE (LastThreads /\ NoUseAfterFree)'
  BY <1>23 DEF TakeLock, Lock
<1>24. ASSUME NEW a \in Agents, TakeOut(a) PROVE (LastThreads /\ NoUseAfterFree)'
  BY <1>24 DEF TakeOut, Back, Race
<1>25. ASSUME NEW a \in Agents, TqLock(a) PROVE (LastThreads /\ NoUseAfterFree)'
  BY <1>25 DEF TqLock, Lock
<1>26. ASSUME NEW a \in Agents, TqRead(a) PROVE (LastThreads /\ NoUseAfterFree)'
  BY <1>26 DEF TqRead, Back
<1>27. ASSUME NEW a \in Agents, DestroySem(a) PROVE (LastThreads /\ NoUseAfterFree)'
  BY <1>27 DEF DestroySem, WaitExit
<1>28. ASSUME NEW a \in Agents, DestroyLock(a) PROVE (LastThreads /\ NoUseAfterFree)'
  BY <1>28 DEF DestroyLock, Lock
<1>29. ASSUME NEW a \in Agents, Clear(a) PROVE (LastThreads /\ NoUseAfterFree)'
  BY <1>29 DEF Clear, Cancel
<1>30. ASSUME NEW a \in Agents, ClearJoin(a) PROVE (LastThreads /\ NoUseAfterFree)'
  BY <1>30 DEF ClearJoin, Join
<1>31. ASSUME NEW a \in Agents, ClearDone(a) PROVE (LastThreads /\ NoUseAfterFree)'
  BY <1>31 DEF ClearDone
<1>32. ASSUME NEW a \in Agents, AbortDone(a) PROVE (LastThreads /\ NoUseAfterFree)'
  <2>1. a = Creator /\ \A b \in Agents : target[b] = None
    BY <1>32 DEF AbortDone
  <2>2. thread_map = {}
    BY <1>32 DEF AbortDone
  <2>3. \A w \in Workers : pc[w] = "none"
    <3>1. \A w \in Workers : pc[w] \in {"none", "wait_in"}
      BY <1>32 DEF AbortDone
    <3>2. \A w \in Workers : thread[w] = "free"
      BY ONLY ThreadsTracked, ThreadsAssumption, <2>1, <2>2, <3>1 DEF ThreadsTracked, Agents
    <3> QED
      BY <3>2
  <2> QED
    BY <1>32, <2>1, <2>3 DEF AbortDone
<1>33. ASSUME NEW a \in Agents, DestroyPost(a) PROVE (LastThreads /\ NoUseAfterFree)'
  <2>1. a = Creator
    BY <1>33 DEF DestroyPost, PostExit
  <2>2. \A w \in Workers : pc[w] \in {"none", "leave_own"}
    BY ONLY NobodyLeft, LInv, ThreadsTracked, LastThreads, TasksAddNoThread,
            DestroyPost(a), <2>1 DEF DestroyPost, PostExit, At
  <2> QED
    BY <1>33, <2>1, <2>2 DEF DestroyPost, PostExit
<1>34. ASSUME NEW a \in Agents, DestroyFree(a) PROVE (LastThreads /\ NoUseAfterFree)'
  BY <1>34 DEF DestroyFree
<1>35. ASSUME NEW w \in Workers, WaitIn(w) PROVE (LastThreads /\ NoUseAfterFree)'
  BY <1>35 DEF WaitIn
<1>36. ASSUME NEW w \in Workers, LockIn(w) PROVE (LastThreads /\ NoUseAfterFree)'
  BY <1>36 DEF LockIn, Lock
<1>37. ASSUME NEW w \in Workers, TakeIn(w) PROVE (LastThreads /\ NoUseAfterFree)'
  BY <1>37 DEF TakeIn
<1>38. ASSUME NEW w \in Workers, RunTask(w) PROVE (LastThreads /\ NoUseAfterFree)'
  BY <1>38 DEF RunTask
<1>39. ASSUME NEW w \in Workers, LockOut(w) PROVE (LastThreads /\ NoUseAfterFree)'
  BY <1>39 DEF LockOut, Lock
<1>40. ASSUME NEW w \in Workers, PostOut(w) PROVE (LastThreads /\ NoUseAfterFree)'
  BY <1>40 DEF PostOut
<1>41. ASSUME NEW w \in Workers, PostOutFails(w) PROVE (LastThreads /\ NoUseAfterFree)'
  BY <1>41 DEF PostOutFails
<1>42. ASSUME NEW w \in Workers, InsertOut(w) PROVE (LastThreads /\ NoUseAfterFree)'
  BY <1>42 DEF InsertOut, Race
<1>43. ASSUME NEW w \in Workers, Event(w) PROVE (LastThreads /\ NoUseAfterFree)'
  BY <1>43 DEF Event
<1>44. ASSUME NEW w \in Workers, Die(w) PROVE (LastThreads /\ NoUseAfterFree)'
  BY <1>44 DEF Die
<1>45. ASSUME NEW w \in Workers, RunExit(w) PROVE (LastThreads /\ NoUseAfterFree)'
  <2>1. CASE w \in canceled
    <3>1. /\ thread' = [thread EXCEPT ![w] = "exited"]
          /\ pc' = [pc EXCEPT ![w] = "none"]
      BY ONLY RunExit(w), <2>1 DEF RunExit, Goto
    <3> QED
      BY <1>45, <3>1 DEF RunExit
  <2>2. CASE w \notin canceled
    <3>1. /\ UNCHANGED thread
          /\ pc' = [pc EXCEPT ![w] = "exit_sem"]
      BY ONLY RunExit(w), <2>2 DEF RunExit, Goto
    <3> QED
      BY <1>45, <3>1 DEF RunExit
  <2> QED
    BY <2>1, <2>2
<1>46. ASSUME NEW w \in Workers, ExitSem(w) PROVE (LastThreads /\ NoUseAfterFree)'
  BY <1>46 DEF ExitSem, WaitExit
<1>47. ASSUME NEW w \in Workers, ExitLock(w) PROVE (LastThreads /\ NoUseAfterFree)'
  BY <1>47 DEF ExitLock, Lock
<1>48. ASSUME NEW w \in Workers, ExitTake(w) PROVE (LastThreads /\ NoUseAfterFree)'
  BY <1>48 DEF ExitTake
<1>49. ASSUME NEW w \in Workers, ExitPost(w) PROVE (LastThreads /\ NoUseAfterFree)'
  <2>1. CASE PostExit(w, "exit_post_own", "leave_own")
    BY <2>1 DEF PostExit
  <2>2. CASE PostExit(w, "exit_post_lost", "leave_lost")
    BY <2>2 DEF PostExit
  <2> QED
    BY <1>49, <2>1, <2>2 DEF ExitPost
<1>50. ASSUME NEW w \in Workers, Leave(w) PROVE (LastThreads /\ NoUseAfterFree)'
  BY <1>50 DEF Leave
<1> QED
BY ONLY [Next]_vars, <1>1, <1>2, <1>3, <1>4, <1>5, <1>6, <1>7, <1>8, <1>9,
     <1>10, <1>11, <1>12, <1>13, <1>14, <1>15, <1>16, <1>17, <1>18, <1>19,
     <1>20, <1>21, <1>22, <1>23, <1>24, <1>25, <1>26, <1>27, <1>28, <1>29,
     <1>30, <1>31, <1>32, <1>33, <1>34, <1>35, <1>36, <1>37, <1>38, <1>39,
     <1>40, <1>41, <1>42, <1>43, <1>44, <1>45, <1>46, <1>47, <1>48, <1>49,
     <1>50
     DEF Next, Call, Continue, Work

\* No thread exists when threadpool_init() begins.
LEMMA LivesInit ==
  Init => Handles /\ HandlesValid /\ Destruction /\ Joiners /\ ExitExclusive
            /\ ThreadsTracked /\ LastThreads /\ NoUseAfterFree
<1> SUFFICES ASSUME Init
    PROVE  Handles /\ HandlesValid /\ Destruction /\ Joiners /\ ExitExclusive
             /\ ThreadsTracked /\ LastThreads /\ NoUseAfterFree
  OBVIOUS
<1> USE ThreadsAssumption DEF Init, Agents
<1>1. Handles /\ HandlesValid /\ ThreadsTracked
  BY DEF Handles, HandlesValid, ThreadsTracked
<1>2. Destruction /\ Joiners /\ LastThreads /\ NoUseAfterFree
  BY DEF Destruction, DestroyPcs, Joiners, LastThreads, NoUseAfterFree
<1>3. ExitHolders = {}
  BY DEF ExitHolders
<1>4. ExitExclusive
  BY <1>3, FS_EmptySet DEF ExitExclusive
<1> QED
  BY <1>1, <1>2, <1>4

\* The inductive invariant of the threads' lives holds of every state.
THEOREM LivesInductive == Spec => []LInv
<1>1. Init => LInv
  BY InitInv, LivesInit DEF LInv
<1>2. LInv /\ [Next]_vars => LInv'
  BY NextInv, HandlesStep, DestructionStep, ExitExclusiveStep
     DEF LInv, IInv
<1> QED
  BY <1>1, <1>2, PTL DEF Spec

\* A handle that is cancelled or joined, or that lies in the map, denotes a
\* thread that exists and will not detach itself (_thread_delete(), which
\* would otherwise act on a pthread_t that is gone).
THEOREM HandlesStayValid == Spec => []HandlesValid
<1>1. LInv => HandlesValid
  BY DEF LInv
<1> QED
  BY <1>1, LivesInductive, PTL

\* A thread in _thread_exit() and threadpool_destroy() never both hold the one
\* token of sem_exit.
THEOREM ExitIsExclusive == Spec => []ExitExclusive
<1>1. LInv => ExitExclusive
  BY DEF LInv
<1> QED
  BY <1>1, LivesInductive, PTL

\* Every thread that exists will be joined or will detach itself, unless a
\* thread is cancelled in pthread_join(), which takes a task that adds a
\* thread and a map_insert() that fails.
THEOREM EveryThreadTracked ==
  ASSUME JoinsUndisturbed PROVE Spec => []ThreadsTracked
<1>1. Init => ThreadsTracked
  BY LivesInit
<1>2. LInv /\ ThreadsTracked /\ [Next]_vars => ThreadsTracked'
  BY JoinsUndisturbed, TrackedStep DEF LInv, IInv
<1> QED
  BY <1>1, <1>2, LivesInductive, PTL DEF Spec

\* What holds of the end of a pool whose tasks add no thread.
EndInv == ThreadsTracked /\ LastThreads /\ NoUseAfterFree

\* It holds of every state.
THEOREM EndInductive ==
  ASSUME TasksAddNoThread PROVE Spec => []EndInv
<1>1. Init => EndInv
  BY LivesInit DEF EndInv
<1>2. LInv /\ EndInv /\ [Next]_vars => EndInv'
  BY TasksAddNoThread, TrackedStep, EndStep
     DEF EndInv, LInv, IInv, JoinsUndisturbed, TasksAddNoThread
<1> QED
  BY <1>1, <1>2, LivesInductive, PTL DEF Spec

\* threadpool_destroy() returns, and a failed threadpool_init() too, only when
\* no thread will touch the pool any more; tasks that add threads excepted.
THEOREM NoThreadOutlivesPool ==
  ASSUME TasksAddNoThread PROVE Spec => []NoUseAfterFree
<1>1. EndInv => NoUseAfterFree
  BY DEF EndInv
<1> QED
  BY <1>1, EndInductive, PTL
=============================================================================
