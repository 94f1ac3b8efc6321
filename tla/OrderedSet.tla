----------------------------- MODULE OrderedSet -----------------------------
(***************************************************************************)
(* What avltree.h promises: a set of nodes, no two with the same key, from *)
(* which a node is taken by its key, or because its key is the smallest or *)
(* the greatest.                                                           *)
(***************************************************************************)
EXTENDS Integers, Sequences

CONSTANTS Nodes, KeyOf, Null

VARIABLES
    members,
    result     \* the last call: its name, its argument, what it returned

vars == <<members, result>>

Init == members = {} /\ result = <<"init">>

Insert(n) ==
    /\ n \notin members
    /\ IF \E o \in members : KeyOf[o] = KeyOf[n]
       THEN members' = members /\ result' = <<"insert", n, "EINVAL">>
       ELSE members' = members \cup {n} /\ result' = <<"insert", n, "OK">>

Removes(n, call) ==
    /\ members' = members \ {n}
    /\ result' = Append(call, n)

Absent(call) ==
    /\ members' = members
    /\ result' = Append(call, Null)

Take(k) ==
    \/ \E n \in members : KeyOf[n] = k /\ Removes(n, <<"take", k>>)
    \/ (\A n \in members : KeyOf[n] # k) /\ Absent(<<"take", k>>)

TakeMin ==
    \/ \E n \in members : /\ \A o \in members : KeyOf[n] <= KeyOf[o]
                          /\ Removes(n, <<"take_min">>)
    \/ members = {} /\ Absent(<<"take_min">>)

TakeMax ==
    \/ \E n \in members : /\ \A o \in members : KeyOf[n] >= KeyOf[o]
                          /\ Removes(n, <<"take_max">>)
    \/ members = {} /\ Absent(<<"take_max">>)

\* the nodes are given to data_delete, each once
Destroy == members' = {} /\ result' = <<"destroy">>

Next ==
    \/ \E n \in Nodes : Insert(n) \/ Take(KeyOf[n])
    \/ TakeMin \/ TakeMax \/ Destroy

Spec == Init /\ [][Next]_vars
=============================================================================
