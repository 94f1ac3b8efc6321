------------------------------ MODULE TaskPool ------------------------------
(***************************************************************************)
(* What the thread pool promises its user (threadpool.h): tasks are        *)
(* started in the order they were added, each is completed by the thread   *)
(* that started it, and completed tasks are handed back in the order of    *)
(* their completion.  A started task that is neither finished nor retired  *)
(* may be lost only with the thread that runs it, or when more tasks are   *)
(* completed than a semaphore can count.                                   *)
(***************************************************************************)
EXTENDS Sequences

CONSTANTS Threads, Items, Nothing

VARIABLES
    pending,    \* tasks added, in order
    running,    \* the task each thread has started
    completed   \* tasks ready to be handed back, in order

vars == <<pending, running, completed>>

Init ==
    /\ pending = <<>>
    /\ running = [w \in Threads |-> Nothing]
    /\ completed = <<>>

Submit(t) ==
    /\ pending' = Append(pending, t)
    /\ UNCHANGED <<running, completed>>

Start(w) ==
    /\ pending # <<>>
    /\ running[w] = Nothing
    /\ running' = [running EXCEPT ![w] = Head(pending)]
    /\ pending' = Tail(pending)
    /\ UNCHANGED completed

Finish(w) ==
    /\ running[w] # Nothing
    /\ completed' = Append(completed, running[w])
    /\ running' = [running EXCEPT ![w] = Nothing]
    /\ UNCHANGED pending

\* the task was an order to retire the thread, the thread was cancelled,
\* or sem_post() overflowed
Discard(w) ==
    /\ running[w] # Nothing
    /\ running' = [running EXCEPT ![w] = Nothing]
    /\ UNCHANGED <<pending, completed>>

HandBack ==
    /\ completed # <<>>
    /\ completed' = Tail(completed)
    /\ UNCHANGED <<pending, running>>

\* the pool is destroyed once no thread runs a task
Drop ==
    /\ \A w \in Threads : running[w] = Nothing
    /\ pending' = <<>>
    /\ completed' = <<>>
    /\ UNCHANGED running

Next ==
    \/ \E t \in Items : Submit(t)
    \/ \E w \in Threads : Start(w) \/ Finish(w) \/ Discard(w)
    \/ HandBack
    \/ Drop

Spec == Init /\ [][Next]_vars
=============================================================================
