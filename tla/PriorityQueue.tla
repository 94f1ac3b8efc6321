--------------------------- MODULE PriorityQueue ---------------------------
(* What a heap promises: it yields the greatest of what was put into it. *)
EXTENDS Integers

CONSTANTS Data, Rank, Failed

VARIABLES items, returned

Init == items = {}

Insert(d) ==
    /\ items' = items \cup {d}
    /\ returned' = d

Greatest == {d \in items : \A x \in items : Rank[x] <= Rank[d]}

Take ==
    /\ returned' \in Greatest
    /\ items' = items \ {returned'}

Retrieve ==
    /\ returned' \in Greatest
    /\ UNCHANGED items

Drop ==
    /\ items' = {}
    /\ returned' \notin Data \cup {Failed}

\* a call that is refused, or one that only sets how the elements are disposed of
Keep == UNCHANGED items /\ returned' \notin Data

Next == Keep \/ Take \/ Retrieve \/ Drop \/ \E d \in Data : Insert(d)
=============================================================================
