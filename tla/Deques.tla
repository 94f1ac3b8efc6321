------------------------------- MODULE Deques -------------------------------
(***************************************************************************)
(* What list.h, queue.h and stack.h promise: every head has a sequence of  *)
(* elements and an element is in one of them at most.  A list is changed   *)
(* anywhere, a queue gives the element it has had longest, a stack the one *)
(* it was given last.                                                      *)
(***************************************************************************)
EXTENDS SequencesExt

CONSTANTS Links, Lists, Queues, Stacks

Heads == Lists \cup Queues \cup Stacks

VARIABLES
    contents,   \* the sequence of each head, front first
    taken       \* what the last call returned: an element, or the head

vars == <<contents, taken>>

Init == contents = [h \in Heads |-> <<>>] /\ taken = <<>>

Free(l) == \A h \in Heads : l \notin ToSet(contents[h])

\* the first conjunct follows from the second, which takes TLC much longer
Becomes(h, s) == contents'[h] = s /\ contents' = [contents EXCEPT ![h] = s]

Insert(h, i, l) ==
    /\ taken' = <<>>
    /\ Becomes(h, InsertAt(contents[h], i, l))
    /\ Free(l)

TakeAt(h, i) ==
    /\ taken' = <<contents[h][i]>>
    /\ Becomes(h, RemoveAt(contents[h], i))

Empty(h) == taken' = <<>> /\ Becomes(h, <<>>)

\* the elements of one list follow in front of an empty one
Move(h, o) ==
    /\ taken' = <<>>
    /\ contents[h] = <<>>
    /\ contents' = [contents EXCEPT ![h] = contents[o], ![o] = <<>>]

ListNext(h) ==
    \/ \E l \in Links, i \in 1 .. Len(contents[h]) + 1 : Insert(h, i, l)
    \/ \E i \in DOMAIN contents[h] : TakeAt(h, i)
    \/ taken' = <<h>> /\ contents[h] = <<>> /\ contents' = contents
    \/ \E o \in Lists \ {h} : Move(h, o)
    \/ Empty(h)

QueueNext(h) ==
    \/ \E l \in Links : Insert(h, 1, l)
    \/ contents[h] # <<>> /\ TakeAt(h, Len(contents[h]))
    \/ Empty(h)

StackNext(h) ==
    \/ \E l \in Links : Insert(h, 1, l)
    \/ contents[h] # <<>> /\ TakeAt(h, 1)
    \/ Empty(h)

Next ==
    \/ \E h \in Lists : ListNext(h)
    \/ \E h \in Queues : QueueNext(h)
    \/ \E h \in Stacks : StackNext(h)

Spec == Init /\ [][Next]_vars
=============================================================================
