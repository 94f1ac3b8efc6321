------------------------------ MODULE AvlTree ------------------------------
(***************************************************************************)
(* src/lib/container/avltree.c: a balanced search tree whose nodes belong  *)
(* to the caller.  The pointers are modelled one by one, because the code  *)
(* walks up along the parent pointers after it has changed the tree along  *)
(* the child pointers.                                                     *)
(*                                                                         *)
(* A tree is a record: the root, for every node its children, parent and   *)
(* height, and whether every call has returned so far.  A pointer to a     *)
(* pointer is a record as well: the node that contains the pointer and its *)
(* side, or the root.                                                      *)
(***************************************************************************)
EXTENDS Integers, Sequences, FiniteSets

CONSTANTS
    Nodes,
    KeyOf,        \* the key each node is inserted with
    Null,
    InnerTakes    \* avltree_take() is called for nodes with two children too

ASSUME TreeAssumption ==
    /\ Null \notin Nodes /\ IsFiniteSet(Nodes)
    /\ KeyOf \in [Nodes -> Int]
    /\ InnerTakes \in BOOLEAN

VARIABLES
    tree,      \* the pointers and heights
    size,
    members,   \* the nodes that were inserted and not taken out since
    result     \* what the last call was and returned

vars == <<tree, size, members, result>>

-----------------------------------------------------------------------------
(* Pointers *)

Sides == {"left", "right"}

Pointers == Nodes \cup {Null}

Trees == [root : Pointers, returned : BOOLEAN, height : [Nodes -> Int],
          left : [Nodes -> Pointers], right : [Nodes -> Pointers],
          parent : [Nodes -> Pointers]]

RootRef == [node |-> Null, side |-> "root"]

Ref(n, side) == [node |-> n, side |-> side]

Refs == {RootRef} \cup [node : Nodes, side : Sides]

Get(t, ref) == IF ref = RootRef THEN t.root ELSE t[ref.side][ref.node]

Set(t, ref, n) ==
    IF ref = RootRef THEN [t EXCEPT !.root = n]
                     ELSE [t EXCEPT ![ref.side][ref.node] = n]

Opposite(side) == IF side = "left" THEN "right" ELSE "left"

Height(t, n) == IF n = Null THEN -1 ELSE t.height[n]

Balance(t, n) ==
    IF n = Null THEN 0 ELSE Height(t, t.right[n]) - Height(t, t.left[n])

\* the height a node has above its children
Above(t, n) ==
    LET l == Height(t, t.left[n])
        r == Height(t, t.right[n])
    IN  (IF l > r THEN l ELSE r) + 1

-----------------------------------------------------------------------------
(* Rotations and rebalancing *)

\* TurnForgetsParent: the subtree that changes sides keeps its old parent
TurnForgetsParent(t, n, side) ==
    LET other == Opposite(side)
        up    == t[other][n]
        moved == [t EXCEPT ![other][n] = t[side][up], ![side][up] = n]
        low   == [moved EXCEPT !.height[n] = Above(moved, n)]
    IN  [low EXCEPT !.height[up] = Above(low, up),
                    !.parent[up] = t.parent[n], !.parent[n] = up]

\* TurnParentsSwapped: the lower node gets its new parent before the upper one
\* reads the old parent from it
TurnParentsSwapped(t, n, side) ==
    LET other == Opposite(side)
        up    == t[other][n]
        moved == [t EXCEPT ![other][n] = t[side][up], ![side][up] = n]
        low   == [moved EXCEPT !.height[n] = Above(moved, n)]
    IN  [low EXCEPT !.height[up] = Above(low, up),
                    !.parent[up] = up, !.parent[n] = up]

\* the child opposite to "side" goes above n
Turn(t, n, side) ==
    LET other == Opposite(side)
        up    == t[other][n]
        moved == [t EXCEPT ![other][n] = t[side][up], ![side][up] = n]
        low   == [moved EXCEPT !.height[n] = Above(moved, n)]
        high  == [low EXCEPT !.height[up] = Above(low, up),
                             !.parent[up] = t.parent[n], !.parent[n] = up]
        child == high[other][n]
    IN  IF child = Null THEN high ELSE [high EXCEPT !.parent[child] = n]

\* and takes the place of the node at ref
Rotate(t, ref, side) ==
    LET n == Get(t, ref)
    IN  Set(Turn(t, n, side), ref, t[Opposite(side)][n])

ChildReference(t, n) ==
    LET p == t.parent[n]
    IN  IF p = Null THEN RootRef
        ELSE IF t.left[p] = n THEN Ref(p, "left") ELSE Ref(p, "right")

\* LiftSingle: the inner grandchild is never rotated first
LiftSingle(t, n, deep) == Rotate(t, ChildReference(t, n), Opposite(deep))

\* the subtree on the side "deep" is two higher than the other one; if it
\* leans inwards it is rotated outwards first
Lift(t, n, deep) ==
    LET lean  == Balance(t, t[deep][n])
        inner == IF deep = "left" THEN lean >= 1 ELSE lean <= -1
        first == IF inner THEN Rotate(t, Ref(n, deep), deep) ELSE t
    IN  Rotate(first, ChildReference(t, n), Opposite(deep))

\* a node gets its height, and is rotated if one side is two higher
Raise(t, n) ==
    LET high == [t EXCEPT !.height[n] = Above(t, n)]
    IN  CASE Balance(high, n) = -2 -> Lift(high, n, "left")
          [] Balance(high, n) = 2  -> Lift(high, n, "right")
          [] OTHER                 -> high

\* one turn of the loop: the tree, and the node it has come to; a node that was
\* rotated down is followed by the one that took its place
Climb(s) ==
    IF s.node = Null THEN s
    ELSE LET even == Raise(s.tree, s.node)
         IN  [tree |-> even, node |-> even.parent[s.node]]

\* more nodes than a walk to the root can meet, rotations included
MaxWalk == 2 * Cardinality(Nodes)

\* from n upwards
Rebalance(t, n) ==
    LET walk[i \in Nat] ==
            IF i = 0 THEN [tree |-> t, node |-> n] ELSE Climb(walk[i - 1])
        end == walk[MaxWalk]
    IN  IF end.node = Null THEN end.tree ELSE [end.tree EXCEPT !.returned = FALSE]

-----------------------------------------------------------------------------
(* Finding and taking out *)

\* the pointer to the node with key k, or the null pointer where it belongs
Find(t, k) ==
    LET find[ref \in Refs] ==
            LET n == Get(t, ref)
            IN  IF n = Null \/ KeyOf[n] = k THEN ref
                ELSE find[Ref(n, IF k < KeyOf[n] THEN "left" ELSE "right")]
    IN  find[RootRef]

Retrieve(t, k) == Get(t, Find(t, k))

NodeRefs(t) == {ref \in Refs : Get(t, ref) # Null}

\* the pointer to the last node on one side
Outermost(t, from, side) ==
    LET last[ref \in NodeRefs(t)] ==
            LET n == Get(t, ref)
            IN  IF t[side][n] = Null THEN ref ELSE last[Ref(n, side)]
    IN  last[from]

\* the node at ref is replaced by one of its children
Splice(t, ref, child) ==
    LET n == Get(t, ref)
        up == IF child = Null THEN t
                              ELSE [t EXCEPT !.parent[child] = t.parent[n]]
    IN  Set(up, ref, child)

\* TakeNodeLosesSubtree: a node with a left child only takes it along
TakeNodeLosesSubtree(t, ref) == Splice(t, ref, t.right[Get(t, ref)])

\* A node with two children is replaced by the smallest node on its right,
\* which does not become the parent of the children it is given.
TakeNode(t, ref) ==
    LET n   == Get(t, ref)
        at  == Outermost(t, Ref(n, "right"), "left")
        min == Get(t, at)
        cut == Splice(t, at, t.right[min])
    IN  IF t.left[n] # Null /\ t.right[n] # Null
        THEN Set([cut EXCEPT !.left[min]   = cut.left[n],
                             !.right[min]  = cut.right[n],
                             !.parent[min] = cut.parent[n],
                             !.height[min] = cut.height[n]], ref, min)
        ELSE Splice(t, ref, IF t.left[n] # Null THEN t.left[n] ELSE t.right[n])

-----------------------------------------------------------------------------
(* The operations *)

\* A node that left the tree belongs to the caller again.  Its fields are
\* written before they are read, unless a node in the tree points to it.
Released(t, n) ==
    IF \E m \in members \ {n} : t.parent[m] = n THEN t
    ELSE [t EXCEPT !.left[n] = Null, !.right[n] = Null,
                   !.parent[n] = Null, !.height[n] = 0]

Fresh == [root |-> Null, returned |-> TRUE,
          left |-> [n \in Nodes |-> Null], right |-> [n \in Nodes |-> Null],
          parent |-> [n \in Nodes |-> Null], height |-> [n \in Nodes |-> 0]]

Init ==
    /\ tree = Fresh
    /\ size = 0
    /\ members = {}
    /\ result = <<"init">>

\* InsertReplaces: an equal key is not refused
InsertReplaces(n) ==
    /\ n \notin members
    /\ LET ref == Find(tree, KeyOf[n])
           put == [tree EXCEPT !.left[n] = Null, !.right[n] = Null,
                               !.parent[n] = ref.node, !.height[n] = 0]
       IN  tree' = Rebalance(Set(put, ref, n), ref.node)
    /\ size' = size + 1
    /\ members' = members \cup {n}
    /\ result' = <<"insert", n, "OK">>

Insert(n) ==
    LET ref == Find(tree, KeyOf[n])
        put == [tree EXCEPT !.left[n] = Null, !.right[n] = Null,
                            !.parent[n] = ref.node, !.height[n] = 0]
    IN  /\ n \notin members
        /\ \/ /\ Get(tree, ref) = Null
              /\ tree' = Rebalance(Set(put, ref, n), ref.node)
              /\ size' = size + 1
              /\ members' = members \cup {n}
              /\ result' = <<"insert", n, "OK">>
           \/ /\ Get(tree, ref) # Null
              /\ result' = <<"insert", n, "EINVAL">>
              /\ UNCHANGED <<tree, size, members>>

\* TakesNotCounted: the size is not reduced
TakesNotCounted(ref, call) ==
    LET n == Get(tree, ref)
        cut == TakeNode(tree, ref)
    IN  /\ n # Null
        /\ tree' = Released(Rebalance(cut, cut.parent[n]), n)
        /\ size' = size
        /\ members' = members \ {n}
        /\ result' = Append(call, n)

\* rebalancing starts at the parent the node had
Takes(ref, call) ==
    LET n == Get(tree, ref)
        cut == TakeNode(tree, ref)
    IN  /\ n # Null
        /\ tree' = Released(Rebalance(cut, cut.parent[n]), n)
        /\ size' = size - 1
        /\ members' = members \ {n}
        /\ result' = Append(call, n)

FindsNothing(call) ==
    /\ result' = Append(call, Null)
    /\ UNCHANGED <<tree, size, members>>

Inner(n) == tree.left[n] # Null /\ tree.right[n] # Null

Take(k) ==
    LET n == Retrieve(tree, k)
    IN  \/ /\ n # Null /\ (Inner(n) => InnerTakes)
           /\ Takes(Find(tree, k), <<"take", k>>)
        \/ /\ n = Null
           /\ FindsNothing(<<"take", k>>)

TakeMin ==
    \/ /\ tree.root # Null
       /\ Takes(Outermost(tree, RootRef, "left"), <<"take_min">>)
    \/ /\ tree.root = Null
       /\ FindsNothing(<<"take_min">>)

TakeMax ==
    \/ /\ tree.root # Null
       /\ Takes(Outermost(tree, RootRef, "right"), <<"take_max">>)
    \/ /\ tree.root = Null
       /\ FindsNothing(<<"take_max">>)

\* What avltree_destroy() makes of a tree, and the nodes it takes from the root
\* and gives to data_delete; there are no more than all.
Drained(t) ==
    LET drain[i \in Nat] ==
            IF i = 0 THEN [tree |-> t, deleted |-> {}]
            ELSE LET s == drain[i - 1]
                 IN  IF s.tree.root = Null THEN s
                     ELSE [tree    |-> TakeNode(s.tree, RootRef),
                           deleted |-> s.deleted \cup {s.tree.root}]
    IN  drain[Cardinality(Nodes)]

\* with a data_delete function; afterwards the tree is initialised again
Destroy ==
    /\ members' = members \ Drained(tree).deleted
    /\ tree' = [Fresh EXCEPT !.returned = (Drained(tree).tree.root = Null)]
    /\ size' = 0
    /\ result' = <<"destroy">>

\* a call that never returns is the last one
Next ==
    /\ tree.returned
    /\ \/ \E n \in Nodes : Insert(n) \/ Take(KeyOf[n])
       \/ TakeMin \/ TakeMax \/ Destroy

Spec == Init /\ [][Next]_vars

-----------------------------------------------------------------------------
(* Iteration *)

PostorderFirst(t, from) ==
    LET first[n \in Nodes] ==
            IF t.left[n] # Null THEN first[t.left[n]]
            ELSE IF t.right[n] # Null THEN first[t.right[n]]
            ELSE n
    IN  first[from]

PostorderNext(t, n) ==
    LET p == t.parent[n]
    IN  IF p = Null THEN Null
        ELSE IF t.right[p] # Null /\ t.left[p] = n
        THEN PostorderFirst(t, t.right[p])
        ELSE p

\* the first nodes of avltree_for_each_postorder(), at most one more than
\* there can be, Null once the iteration has ended
Visited(t) ==
    LET visit[i \in 1 .. Cardinality(Nodes) + 1] ==
            IF i = 1 THEN PostorderFirst(t, t.root)
            ELSE IF visit[i - 1] = Null THEN Null
            ELSE PostorderNext(t, visit[i - 1])
    IN  visit

-----------------------------------------------------------------------------
(* Correctness *)

\* avltree_size() is the number of nodes the tree was given and has not given
\* back.
CountsMembers == size = Cardinality(members)

\* avltree_retrieve() finds every node that was inserted and not taken out,
\* and nothing else: no rotation and no removal loses a part of the tree.
RetrievesMembers ==
    \A n \in Nodes :
        LET found == Retrieve(tree, KeyOf[n])
        IN  /\ found # Null => found \in members /\ KeyOf[found] = KeyOf[n]
            /\ n \in members => found = n

\* The recorded heights are right and no node has one side more than one
\* higher than the other, so that an operation takes logarithmic time.
Balanced ==
    \A n \in members :
        /\ tree.height[n] = Above(tree, n)
        /\ Balance(tree, n) \in {-1, 0, 1}

\* No walk along the parent pointers goes round in a circle.
CallsReturn == tree.returned

\* avltree_for_each_postorder() visits every node exactly once and ends, and
\* a node after its children, so that the nodes may be freed on the way.
PostorderVisitsAll ==
    members # {} =>
        LET visit == Visited(tree)
            last  == Cardinality(members)
        IN  /\ {visit[i] : i \in 1..last} = members
            /\ visit[last + 1] = Null
            /\ \A i, j \in 1..last : tree.parent[visit[i]] = visit[j] => i < j

OS == INSTANCE OrderedSet

\* The tree implements the set of OrderedSet: equal keys are refused,
\* avltree_take_min() and avltree_take_max() yield the node with the smallest
\* and the greatest key, and avltree_destroy() reaches every node.
ImplementsOrderedSet == OS!Spec
=============================================================================
