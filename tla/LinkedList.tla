----------------------------- MODULE LinkedList -----------------------------
(***************************************************************************)
(* src/lib/container/list.c, and queue.c and stack.c on top of it: rings   *)
(* of links that belong to the caller, closed through a head.  queue and   *)
(* stack count their elements.                                             *)
(*                                                                         *)
(* A link that is in no list keeps the pointers it had when it was taken.  *)
(***************************************************************************)
EXTENDS Integers, SequencesExt

CONSTANTS Links, Lists, Queues, Stacks

Heads == Lists \cup Queues \cup Stacks

Nodes == Heads \cup Links

ASSUME ListAssumption ==
    /\ Links \cap Heads = {} /\ IsFiniteSet(Links)
    /\ Lists \cap Queues = {} /\ Lists \cap Stacks = {} /\ Queues \cap Stacks = {}

VARIABLES
    next, prev,
    size,     \* of each queue and stack
    taken     \* what the last call returned

vars == <<next, prev, size, taken>>

-----------------------------------------------------------------------------
(* Traversal *)

\* list_for_each() and its reverse: the nodes after h, up to h itself or one
\* more than there are links
Around(f, h) ==
    LET most == Cardinality(Links) + 1
        at[i \in 0..most] == IF i = 0 THEN h ELSE f[at[i - 1]]
        ends == {i \in 1..most : at[i] = h}
        last == IF ends = {} THEN most ELSE Min(ends) - 1
    IN  [i \in 1..last |-> at[i]]

Elements(h) == Around(next, h)

Listed == UNION {ToSet(Elements(h)) : h \in Heads}

-----------------------------------------------------------------------------
(* Links *)

\* list_insert(): l comes behind "at", a head or an element
Link(at, l) ==
    /\ next' = [next EXCEPT ![l] = next[at], ![at] = l]
    /\ prev' = [prev EXCEPT ![l] = at, ![next[at]] = l]

\* UnlinkForward: the ring is closed in one direction only
UnlinkForward(l) ==
    /\ next' = [next EXCEPT ![prev[l]] = next[l]]
    /\ prev' = prev

\* list_take()
Unlink(l) ==
    /\ next' = [next EXCEPT ![prev[l]] = next[l]]
    /\ prev' = [prev EXCEPT ![next[l]] = prev[l]]

\* list_init()
Reset(h) ==
    /\ next' = [next EXCEPT ![h] = h]
    /\ prev' = [prev EXCEPT ![h] = h]

-----------------------------------------------------------------------------
(* Lists *)

ListInsert(at, l) ==
    /\ Link(at, l)
    /\ taken' = <<>>
    /\ UNCHANGED size

\* list_insert_front() and list_insert_back()
ListInsertEnds(h, l) == ListInsert(h, l) \/ ListInsert(prev[h], l)

ListTake(l) ==
    /\ Unlink(l)
    /\ taken' = <<l>>
    /\ UNCHANGED size

\* list_take_front() and list_take_back(); an empty list yields its head
ListTakeEnds(h) == ListTake(next[h]) \/ ListTake(prev[h])

\* list_clear(), list_destroy() without and with a function that frees the
\* elements; with it the head is used again only after list_init()
ListClear(h) ==
    /\ Reset(h)
    /\ taken' = <<>>
    /\ UNCHANGED size

\* list_merge(), of use only while the list is empty: the elements of "o"
\* are put between the head and itself
ListMerge(h, o) ==
    /\ next[h] = h
    /\ next[o] # o
    /\ next' = [next EXCEPT ![prev[o]] = h, ![h] = next[o], ![o] = o]
    /\ prev' = [prev EXCEPT ![next[o]] = next[h], ![next[h]] = prev[o], ![o] = o]
    /\ taken' = <<>>
    /\ UNCHANGED size

-----------------------------------------------------------------------------
(* Queues and stacks *)

Insert(h, l) ==
    /\ Link(h, l)
    /\ size' = [size EXCEPT ![h] = @ + 1]
    /\ taken' = <<>>

\* QueueTakeFront: the wrong end
QueueTakeFront(h) ==
    /\ size[h] > 0
    /\ Unlink(next[h])
    /\ size' = [size EXCEPT ![h] = @ - 1]
    /\ taken' = <<next[h]>>

\* the caller has asked queue_empty() before
QueueTake(h) ==
    /\ size[h] > 0
    /\ Unlink(prev[h])
    /\ size' = [size EXCEPT ![h] = @ - 1]
    /\ taken' = <<prev[h]>>

StackTake(h) ==
    /\ size[h] > 0
    /\ Unlink(next[h])
    /\ size' = [size EXCEPT ![h] = @ - 1]
    /\ taken' = <<next[h]>>

Clear(h) ==
    /\ Reset(h)
    /\ size' = [size EXCEPT ![h] = 0]
    /\ taken' = <<>>

Init ==
    /\ next = [n \in Nodes |-> n]
    /\ prev = [n \in Nodes |-> n]
    /\ size = [h \in Queues \cup Stacks |-> 0]
    /\ taken = <<>>

\* a caller inserts a link that is in no list
Next ==
    \/ \E l \in Links \ Listed :
        \/ \E h \in Lists :
            \/ ListInsertEnds(h, l)
            \/ \E at \in ToSet(Elements(h)) : ListInsert(at, l)
        \/ \E h \in Queues \cup Stacks : Insert(h, l)
    \/ \E h \in Lists :
        \/ ListTakeEnds(h)
        \/ \E l \in ToSet(Elements(h)) : ListTake(l)
        \/ ListClear(h)
        \/ \E o \in Lists \ {h} : ListMerge(h, o)
    \/ \E h \in Queues : QueueTake(h)
    \/ \E h \in Stacks : StackTake(h)
    \/ \E h \in Queues \cup Stacks : Clear(h)

Spec == Init /\ [][Next]_vars

-----------------------------------------------------------------------------
(* Correctness *)

\* Going forward from a head one meets elements and comes back to the head;
\* going backward one meets the same elements the other way round; and no
\* element is in two lists.  Queues and stacks count their elements.
RingsClosed ==
    \A h \in Heads :
        /\ ToSet(Elements(h)) \subseteq Links
        /\ Around(prev, h) = Reverse(Elements(h))
        /\ \A o \in Heads \ {h} : ToSet(Elements(h)) \cap ToSet(Elements(o)) = {}
        /\ h \in Queues \cup Stacks => size[h] = Len(Elements(h))

D == INSTANCE Deques WITH contents <- [h \in Heads |-> Elements(h)]

\* The rings implement the sequences of Deques: queues are first in, first
\* out, stacks last in, first out, and lists keep the order of their elements.
ImplementsDeques == D!Spec
=============================================================================
