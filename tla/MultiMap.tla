------------------------------ MODULE MultiMap ------------------------------
(***************************************************************************)
(* What map.h promises.  A map holds entries under their keys, several     *)
(* under one key if they were inserted so.  A call that inserts or         *)
(* rehashes may be refused and then changes nothing; a call that takes a   *)
(* key yields an entry of that key whenever the map holds one.             *)
(***************************************************************************)
CONSTANTS Entries, Key, None

VARIABLES
    held,    \* the entries in the map
    result   \* the last call: its name, its argument, what it returned

vars == <<held, result>>

Errors == {"EBADSLT", "ENOMEM"}

Init == held = {} /\ result = <<"init">>

Insert(e) ==
    /\ e \notin held
    /\ \/ held' = held \cup {e} /\ result' = <<"insert", e, "OK">>
       \/ held' = held /\ result' = <<"insert", e, "EBADSLT">>

Take(k) ==
    \/ \E e \in held : /\ Key[e] = k
                       /\ held' = held \ {e}
                       /\ result' = <<"take", k, e>>
    \/ /\ \A e \in held : Key[e] # k
       /\ held' = held
       /\ result' = <<"take", k, None>>

Rehash == held' = held /\ \E err \in Errors \cup {"OK"} : result' = <<"rehash", err>>

Clear == held' = {} /\ result' = <<"clear">>

Next == (\E e \in Entries : Insert(e) \/ Take(Key[e])) \/ Rehash \/ Clear

Spec == Init /\ [][Next]_vars
=============================================================================
