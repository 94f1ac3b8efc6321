----------------------------- MODULE MCHashMap -----------------------------
(* HashMap with keys that collide at every capacity the table can have. *)
EXTENDS HashMap

CONSTANTS e1, e2, e3, e4, e5

MCEntries == {e1, e2, e3, e4, e5}

\* e1 and e2 are entries of the same key
MCKey == [e \in MCEntries |-> CASE e \in {e1, e2} -> 1 [] e = e3 -> 2
                                [] e = e4 -> 3 [] OTHER -> 4]

\* keys 1 and 2 have the same hash; 3 meets them in a table of eight slots
MCHash == <<0, 0, 8, 5>>
=============================================================================
