---------------------------- MODULE MCThreadPool ----------------------------
(* ThreadPool on small sets of threads and tasks. *)
EXTENDS ThreadPool, TLC

\* the program ends once the pool is gone and every thread has ended
Finished ==
    /\ pool = "freed"
    /\ \A a \in Agents : pc[a] \in {"idle", "none"}
    /\ UNCHANGED vars

MCSpec == Init /\ [][Next \/ Finished]_vars

MCFairSpec == MCSpec /\ Fairness

WorkersAndTasks ==
    Permutations(Workers) \cup Permutations(Tasks) \cup Permutations(ExitTasks)
=============================================================================
