--------------------------- MODULE AvlTreeProofs ---------------------------
(***************************************************************************)
(* AvlTree for any finite set of nodes and any keys, as long as no node is *)
(* taken while it has two children: the tree stays ordered, linked in both *)
(* directions and balanced, and implements the set of OrderedSet.          *)
(*                                                                         *)
(* A search tree is described without recursion by the set d[n] of nodes   *)
(* at or below each node n.                                                *)
(***************************************************************************)
EXTENDS AvlTree, Induction

\* avltree_take() is called for nodes with at most one child.
OuterTakes == ~InnerTakes

Below(d, n) == IF n = Null THEN {} ELSE d[n]

\* The children A and B of the nodes M make up search trees: what is below A has
\* smaller keys, what is below B greater ones.
Ordered(A, B, K, M, d) ==
    /\ M \subseteq Nodes /\ K \in [Nodes -> Int] /\ d \in [M -> SUBSET M]
    /\ \A n \in M :
          /\ A[n] \in M \cup {Null} /\ B[n] \in M \cup {Null}
          /\ d[n] = {n} \cup Below(d, A[n]) \cup Below(d, B[n])
          /\ \A m \in Below(d, A[n]) : K[m] < K[n]
          /\ \A m \in Below(d, B[n]) : K[m] > K[n]

\* The parents P agree with the children.
Linked(A, B, P, root, M) ==
    /\ \A n \in M :
          /\ A[n] # Null => P[A[n]] = n
          /\ B[n] # Null => P[B[n]] = n
          /\ P[n] = Null => n = root
          /\ P[n] # Null => P[n] \in M /\ (A[P[n]] = n \/ B[P[n]] = n)
    /\ root # Null => P[root] = Null

Rooted(root, M, d) == root \in M \cup {Null} /\ Below(d, root) = M

IsTree(A, B, K, P, root, M, d) ==
    Ordered(A, B, K, M, d) /\ Linked(A, B, P, root, M) /\ Rooted(root, M, d)

-----------------------------------------------------------------------------
(* Search trees *)

\* The keys of the two sides of a node do not meet, nor does its own.
LEMMA SidesApart ==
  ASSUME NEW M, NEW A, NEW B, NEW K, NEW d,
         Ordered(A, B, K, M, d), NEW n \in M
  PROVE  /\ n \in d[n] /\ d[n] \subseteq M
         /\ n \notin Below(d, A[n]) /\ n \notin Below(d, B[n])
         /\ Below(d, A[n]) \cap Below(d, B[n]) = {}
         /\ A[n] # Null => A[n] \in Below(d, A[n]) /\ A[n] # B[n]
         /\ B[n] # Null => B[n] \in Below(d, B[n])
         /\ A[n] # n /\ B[n] # n
<1>1. d[n] \subseteq M /\ n \in d[n]
  BY DEF Ordered
<1>2. \A m \in M : m \in d[m]
  BY DEF Ordered
<1>3. A[n] \in M \cup {Null} /\ B[n] \in M \cup {Null} /\ Null \notin M
  BY TreeAssumption DEF Ordered
<1>4. Below(d, A[n]) \subseteq M /\ Below(d, B[n]) \subseteq M
  BY <1>3 DEF Ordered, Below
<1>5. \A m \in M : K[m] \in Int
  BY DEF Ordered
<1>6. /\ \A m \in Below(d, A[n]) : K[m] < K[n]
      /\ \A m \in Below(d, B[n]) : K[m] > K[n]
  BY DEF Ordered
<1>7. n \notin Below(d, A[n]) /\ n \notin Below(d, B[n]) /\ Below(d, A[n]) \cap Below(d, B[n]) = {}
  BY <1>4, <1>5, <1>6
<1>8. /\ A[n] # Null => A[n] \in Below(d, A[n])
      /\ B[n] # Null => B[n] \in Below(d, B[n])
  BY <1>2, <1>3 DEF Below
<1> QED
  BY <1>1, <1>3, <1>7, <1>8

\* What is below a node has no more below it than the node.
LEMMA BelowBelow ==
  ASSUME NEW M, NEW A, NEW B, NEW K, NEW d,
         Ordered(A, B, K, M, d), NEW n \in M, NEW m \in d[n]
  PROVE  m \in M /\ d[m] \subseteq d[n]
<1> DEFINE U == {d[k] : k \in {j \in M : \E i \in d[j] : ~(d[i] \subseteq d[j])}}
<1>1. IsFiniteSet(M)
  BY TreeAssumption, FS_Subset DEF Ordered
<1>2. U \in SUBSET SUBSET M
  BY SidesApart
<1>3. U = {}
  <2> SUFFICES ASSUME U # {} PROVE FALSE
    OBVIOUS
  <2> HIDE DEF U
  <2>1. PICK s \in U : \A t \in U : t \subseteq s => t = s
    BY <1>1, <1>2, SmallestSet
  <2>2. PICK j \in M : s = d[j] /\ \E i \in d[j] : ~(d[i] \subseteq d[j])
    BY <2>1 DEF U
  <2>3. PICK i \in d[j] : ~(d[i] \subseteq d[j])
    BY <2>2
  <2>4. ASSUME NEW c \in M, i \in d[c], d[c] \subseteq d[j], j \notin d[c]
        PROVE  FALSE
    <3>1. d[c] # d[j]
      BY <2>4, SidesApart
    <3>2. d[c] \notin U
      BY <2>1, <2>2, <2>4, <3>1
    <3>3. d[i] \subseteq d[c]
      BY <2>4, <3>2 DEF U
    <3> QED
      BY <2>3, <2>4, <3>3
  <2>5. /\ A[j] \in M \cup {Null} /\ B[j] \in M \cup {Null}
        /\ d[j] = {j} \cup Below(d, A[j]) \cup Below(d, B[j])
    BY DEF Ordered
  <2>6. j \notin Below(d, A[j]) /\ j \notin Below(d, B[j])
    BY SidesApart
  <2>7. CASE i = j
    BY <2>3, <2>7
  <2>8. CASE i \in Below(d, A[j])
    BY <2>4, <2>5, <2>6, <2>8 DEF Below
  <2>9. CASE i \in Below(d, B[j])
    BY <2>4, <2>5, <2>6, <2>9 DEF Below
  <2> QED
    BY <2>5, <2>7, <2>8, <2>9
<1>4. m \in M
  BY SidesApart
<1> QED
  BY <1>3, <1>4

\* No node is below what is below it.
LEMMA BelowOnce ==
  ASSUME NEW M, NEW A, NEW B, NEW K, NEW d,
         Ordered(A, B, K, M, d), NEW n \in M, NEW m \in M, m \in d[n], n \in d[m]
  PROVE  m = n
<1>1. /\ A[n] \in M \cup {Null} /\ B[n] \in M \cup {Null}
      /\ d[n] = {n} \cup Below(d, A[n]) \cup Below(d, B[n])
  BY DEF Ordered
<1>2. n \notin Below(d, A[n]) /\ n \notin Below(d, B[n])
  BY SidesApart
<1>3. m \notin Below(d, A[n])
  BY <1>1, <1>2, BelowBelow DEF Below
<1>4. m \notin Below(d, B[n])
  BY <1>1, <1>2, BelowBelow DEF Below
<1> QED
  BY <1>1, <1>3, <1>4

\* The other way round it is a search tree as well.
LEMMA Mirrored ==
  ASSUME NEW M, NEW A, NEW B, NEW K, NEW d,
         NEW L \in [Nodes -> Int], \A n \in M : L[n] = -K[n]
  PROVE  Ordered(A, B, K, M, d) => Ordered(B, A, L, M, d)
<1>1. ASSUME Ordered(A, B, K, M, d), NEW n \in M
      PROVE  K[n] \in Int
  BY <1>1 DEF Ordered
<1>2. ASSUME Ordered(A, B, K, M, d), NEW n \in M
      PROVE  /\ Below(d, A[n]) \subseteq M /\ Below(d, B[n]) \subseteq M
             /\ A[n] \in M \cup {Null} /\ B[n] \in M \cup {Null}
             /\ d[n] = {n} \cup Below(d, B[n]) \cup Below(d, A[n])
             /\ \A m \in Below(d, A[n]) : K[m] < K[n]
             /\ \A m \in Below(d, B[n]) : K[m] > K[n]
  BY <1>2 DEF Ordered, Below
<1>3. ASSUME Ordered(A, B, K, M, d), NEW n \in M
      PROVE  /\ \A m \in Below(d, B[n]) : L[m] < L[n]
             /\ \A m \in Below(d, A[n]) : L[m] > L[n]
  BY <1>1, <1>2, <1>3
<1>4. Ordered(A, B, K, M, d) => M \subseteq Nodes /\ d \in [M -> SUBSET M]
  BY DEF Ordered
<1> QED
  BY <1>2, <1>3, <1>4 DEF Ordered

\* A node is on one side of its parent.
LEMMA ParentAbove ==
  ASSUME NEW M, NEW A, NEW B, NEW K, NEW d, NEW P, NEW root,
         IsTree(A, B, K, P, root, M, d), NEW n \in M, P[n] # Null
  PROVE  /\ P[n] \in M /\ P[n] # n /\ n \in d[P[n]] /\ P[n] \notin d[n]
         /\ (A[P[n]] = n /\ B[P[n]] # n) \/ (B[P[n]] = n /\ A[P[n]] # n)
<1>1. Ordered(A, B, K, M, d) /\ Null \notin M
  BY TreeAssumption DEF IsTree, Ordered
<1>2. P[n] \in M /\ (A[P[n]] = n \/ B[P[n]] = n)
  BY DEF IsTree, Linked
<1>3. A[P[n]] # P[n] /\ B[P[n]] # P[n] /\ (A[P[n]] # Null => A[P[n]] # B[P[n]])
  BY <1>1, <1>2, SidesApart
<1>4. n \in d[n] /\ d[P[n]] = {P[n]} \cup Below(d, A[P[n]]) \cup Below(d, B[P[n]])
  BY <1>1, <1>2, SidesApart DEF Ordered
<1>5. n \in d[P[n]]
  BY <1>1, <1>2, <1>4 DEF Below
<1>6. P[n] \notin d[n]
  BY <1>1, <1>2, <1>3, <1>5, BelowOnce
<1> QED
  BY <1>1, <1>2, <1>3, <1>5, <1>6

\* The children are where the parent is.
LEMMA ChildOf ==
  ASSUME NEW M, NEW A, NEW B, NEW K, NEW d, NEW P, NEW root,
         IsTree(A, B, K, P, root, M, d), NEW n \in M, NEW c
  PROVE  A[n] = c \/ B[n] = c => c = Null \/ (c \in M /\ P[c] = n /\ c # root)
<1>1. n \in Nodes /\ Null \notin Nodes
  BY TreeAssumption DEF IsTree, Ordered
<1> QED
  BY <1>1 DEF IsTree, Linked, Ordered

\* Only the root has no parent.
LEMMA RootAbove ==
  ASSUME NEW M, NEW A, NEW B, NEW K, NEW d, NEW P, NEW root,
         IsTree(A, B, K, P, root, M, d), NEW n \in M
  PROVE  root \in M /\ n \in d[root] /\ (P[n] = Null <=> n = root)
BY DEF IsTree, Linked, Rooted, Below

\* What is below a node has its parent there, unless it is the node.
LEMMA ParentBelow ==
  ASSUME NEW M, NEW A, NEW B, NEW K, NEW d, NEW P, NEW root,
         IsTree(A, B, K, P, root, M, d), NEW n \in M, NEW m \in d[n], m # n
  PROVE  m \in M /\ P[m] \in M /\ P[m] \in d[n]
<1>1. Ordered(A, B, K, M, d)
  BY DEF IsTree
<1>2. m \in M
  BY <1>1, SidesApart
<1>3. m # root
  BY <1>1, <1>2, BelowOnce, RootAbove
<1>4. P[m] \in M
  BY <1>2, <1>3, RootAbove, ParentAbove
<1> DEFINE U == {d[k] : k \in {j \in M : m \in d[j] /\ m # j /\ P[m] \notin d[j]}}
<1>5. IsFiniteSet(M)
  BY <1>1, TreeAssumption, FS_Subset DEF Ordered
<1>6. U \in SUBSET SUBSET M
  BY <1>1, SidesApart
<1>7. U = {}
  <2> SUFFICES ASSUME U # {} PROVE FALSE
    OBVIOUS
  <2> HIDE DEF U
  <2>1. PICK s \in U : \A t \in U : t \subseteq s => t = s
    BY <1>5, <1>6, SmallestSet
  <2>2. PICK j \in M : s = d[j] /\ m \in d[j] /\ m # j /\ P[m] \notin d[j]
    BY <2>1 DEF U
  <2>3. ASSUME NEW c \in M, m \in d[c], d[c] \subseteq d[j], j \notin d[c], P[c] = j
        PROVE  FALSE
    <3>1. d[c] # d[j]
      BY <1>1, <2>3, SidesApart
    <3>2. d[c] \notin U
      BY <2>1, <2>2, <2>3, <3>1
    <3>3. m # c => P[m] \in d[c]
      BY <2>3, <3>2 DEF U
    <3>4. m = c => P[m] \in d[j]
      BY <1>1, <2>3, SidesApart
    <3> QED
      BY <2>2, <2>3, <3>3, <3>4
  <2>4. /\ A[j] \in M \cup {Null} /\ B[j] \in M \cup {Null}
        /\ d[j] = {j} \cup Below(d, A[j]) \cup Below(d, B[j])
    BY <1>1 DEF Ordered
  <2>5. j \notin Below(d, A[j]) /\ j \notin Below(d, B[j])
    BY <1>1, SidesApart
  <2>6. /\ A[j] # Null => P[A[j]] = j
        /\ B[j] # Null => P[B[j]] = j
    BY DEF IsTree, Linked
  <2>7. m \notin Below(d, A[j])
    BY <2>3, <2>4, <2>5, <2>6 DEF Below
  <2>8. m \notin Below(d, B[j])
    BY <2>3, <2>4, <2>5, <2>6 DEF Below
  <2> QED
    BY <2>2, <2>4, <2>7, <2>8
<1> QED
  BY <1>2, <1>4, <1>7

-----------------------------------------------------------------------------
(* Rotations *)

\* The child B[n] has taken the place of n, which is its child A now.
Turned(A, B, P, root, A2, B2, P2, root2, M, n) ==
    LET up == B[n]
    IN  /\ up # Null
        /\ \A m \in M :
              /\ A2[m] = IF m = up THEN n ELSE IF m = P[n] /\ A[m] = n THEN up ELSE A[m]
              /\ B2[m] = IF m = n THEN A[up] ELSE IF m = P[n] /\ A[m] # n THEN up ELSE B[m]
              /\ P2[m] = IF m = up THEN P[n] ELSE IF m = n THEN up
                         ELSE IF m = A[up] THEN n ELSE P[m]
        /\ root2 = IF P[n] = Null THEN up ELSE root

\* A rotation changes what is below the two nodes only.
LEMMA TurnedTree ==
  ASSUME NEW M, NEW A, NEW B, NEW K, NEW d, NEW P, NEW root,
         NEW A2, NEW B2, NEW P2, NEW root2,
         IsTree(A, B, K, P, root, M, d), NEW n \in M,
         Turned(A, B, P, root, A2, B2, P2, root2, M, n)
  PROVE  \E d2 : /\ IsTree(A2, B2, K, P2, root2, M, d2)
                 /\ d2[B[n]] = d[n] /\ d2[n] \subseteq d[n]
                 /\ \A m \in M \ {n, B[n]} : d2[m] = d[m]
<1> DEFINE up == B[n]
           c == A[up]
           d2 == [m \in M |-> IF m = up THEN d[n]
                              ELSE IF m = n THEN {n} \cup Below(d, A[n]) \cup Below(d, c)
                              ELSE d[m]]
<1>1. Ordered(A, B, K, M, d) /\ Null \notin M
  BY TreeAssumption DEF IsTree, Ordered
<1>2. up \in M /\ up # n /\ up # Null /\ P[up] = n /\ up # root
  BY <1>1, SidesApart, ChildOf DEF Turned
<1>3. up # P[n]
  <2>1. up \in d[n]
    BY <1>1, <1>2 DEF Ordered, Below
  <2> QED
    BY <1>2, <2>1, ParentAbove
<1>4. c = Null \/ (c \in M /\ P[c] = up /\ c # root /\ c # up /\ c # n)
  BY <1>1, <1>2, <1>3, ChildOf, SidesApart
<1>5. P[n] # n
  BY <1>1, TreeAssumption, ParentAbove
<1>6. \A m \in M :
         /\ A2[m] = IF m = up THEN n ELSE IF m = P[n] /\ A[m] = n THEN up ELSE A[m]
         /\ B2[m] = IF m = n THEN c ELSE IF m = P[n] /\ A[m] # n THEN up ELSE B[m]
         /\ P2[m] = IF m = up THEN P[n] ELSE IF m = n THEN up
                    ELSE IF m = c THEN n ELSE P[m]
  BY DEF Turned
<1>7. root2 = IF P[n] = Null THEN up ELSE root
  BY DEF Turned
<1>8. /\ d[n] = {n} \cup Below(d, A[n]) \cup d[up]
      /\ d[up] = {up} \cup Below(d, c) \cup Below(d, B[up])
      /\ d \in [M -> SUBSET M]
      /\ A[n] \in M \cup {Null} /\ B[up] \in M \cup {Null}
  BY <1>1, <1>2 DEF Ordered, Below
<1>9. \A m \in M : K[m] \in Int
  BY <1>1 DEF Ordered
<1>10. /\ \A m \in Below(d, A[n]) : m \in M /\ K[m] < K[n]
       /\ \A m \in d[up] : m \in M /\ K[m] > K[n]
       /\ \A m \in Below(d, c) : m \in M /\ K[m] < K[up]
       /\ \A m \in Below(d, B[up]) : m \in M /\ K[m] > K[up]
  BY <1>1, <1>2, <1>4, <1>8 DEF Ordered, Below
<1>11. A[n] # up /\ A[n] # n /\ B[up] # up /\ B[up] # n
  <2>1. A[n] # up /\ A[n] # n /\ B[up] # up
    BY <1>1, <1>2, SidesApart
  <2>2. B[up] = n => P[n] = up
    BY <1>2, ChildOf, TreeAssumption, <1>1
  <2> QED
    BY <1>3, <2>1, <2>2
<1>12. d2 \in [M -> SUBSET M]
  BY <1>2, <1>4, <1>8 DEF Below
<1>13. ASSUME NEW m \in M, m # n, m # up
       PROVE  /\ A2[m] \in M \cup {Null} /\ B2[m] \in M \cup {Null}
              /\ Below(d2, A2[m]) = Below(d, A[m]) /\ Below(d2, B2[m]) = Below(d, B[m])
  <2>1. A[m] \in M \cup {Null} /\ B[m] \in M \cup {Null}
    BY <1>1 DEF Ordered
  <2>2. A[m] # up /\ B[m] # up
    BY <1>2, <1>13, ChildOf
  <2>3. A[m] = n \/ B[m] = n => P[n] = m
    BY <1>1, ChildOf
  <2>4. P[n] = m => (A[m] = n /\ B[m] # n) \/ (B[m] = n /\ A[m] # n)
    BY <1>1, ParentAbove
  <2>5. Below(d2, up) = d[n] /\ Below(d, n) = d[n]
    BY <1>1, <1>2 DEF Below
  <2>6. \A x \in M \cup {Null} : x # n /\ x # up => Below(d2, x) = Below(d, x)
    BY DEF Below
  <2>7. A2[m] = IF A[m] = n THEN up ELSE A[m]
    BY <1>6, <1>13, <2>3
  <2>8. B2[m] = IF B[m] = n THEN up ELSE B[m]
    BY <1>6, <1>13, <2>3, <2>4
  <2> HIDE DEF d2, up
  <2> QED
    BY <1>2, <2>1, <2>2, <2>5, <2>6, <2>7, <2>8
<1>14. /\ A2[n] = A[n] /\ B2[n] = c /\ A2[up] = n /\ B2[up] = B[up]
  BY <1>2, <1>3, <1>5, <1>6
<1>15. /\ d2[up] = d[n] /\ d2[n] = {n} \cup Below(d, A[n]) \cup Below(d, c)
       /\ \A m \in M \ {n, up} : d2[m] = d[m]
  BY <1>2
<1>16. /\ Below(d2, A[n]) = Below(d, A[n]) /\ Below(d2, c) = Below(d, c)
       /\ Below(d2, B[up]) = Below(d, B[up]) /\ Below(d2, n) = d2[n]
  BY <1>1, <1>4, <1>8, <1>11, <1>15 DEF Below
<1> HIDE DEF d2, up, c
<1>17. Ordered(A2, B2, K, M, d2)
  <2>1. ASSUME NEW m \in M, m # n, m # up
        PROVE  /\ d2[m] = {m} \cup Below(d2, A2[m]) \cup Below(d2, B2[m])
               /\ \A k \in Below(d2, A2[m]) : K[k] < K[m]
               /\ \A k \in Below(d2, B2[m]) : K[k] > K[m]
    BY <1>1, <1>13, <1>15, <2>1 DEF Ordered
  <2>2. /\ d2[n] = {n} \cup Below(d2, A2[n]) \cup Below(d2, B2[n])
        /\ \A k \in Below(d2, A2[n]) : K[k] < K[n]
        /\ \A k \in Below(d2, B2[n]) : K[k] > K[n]
    BY <1>8, <1>10, <1>14, <1>15, <1>16
  <2>3. d2[up] = {up} \cup Below(d2, A2[up]) \cup Below(d2, B2[up])
    BY <1>8, <1>14, <1>15, <1>16
  <2>4. \A k \in Below(d2, A2[up]) : K[k] < K[up]
    BY <1>2, <1>8, <1>9, <1>10, <1>14, <1>15, <1>16
  <2>5. \A k \in Below(d2, B2[up]) : K[k] > K[up]
    BY <1>10, <1>14, <1>16
  <2>6. /\ A2[n] \in M \cup {Null} /\ B2[n] \in M \cup {Null}
        /\ A2[up] \in M \cup {Null} /\ B2[up] \in M \cup {Null}
    BY <1>4, <1>8, <1>14
  <2>7. M \subseteq Nodes /\ K \in [Nodes -> Int]
    BY <1>1 DEF Ordered
  <2> QED
    BY <1>12, <1>13, <2>1, <2>2, <2>3, <2>4, <2>5, <2>6, <2>7 DEF Ordered
<1>18. Linked(A2, B2, P2, root2, M)
  <2>1. ASSUME NEW m \in M
        PROVE  /\ A2[m] # Null => P2[A2[m]] = m
               /\ B2[m] # Null => P2[B2[m]] = m
    <3>1. A[m] \in M \cup {Null} /\ B[m] \in M \cup {Null}
      BY <1>1 DEF Ordered
    <3>2. /\ A[m] # Null => P[A[m]] = m
          /\ B[m] # Null => P[B[m]] = m
      BY DEF IsTree, Linked
    <3>3. P[n] = m => (A[m] = n /\ B[m] # n) \/ (B[m] = n /\ A[m] # n)
      BY <1>1, ParentAbove
    <3>4. (A[n] # c /\ B[up] # c) \/ c = Null
      BY <1>2, <1>4, <3>2, <1>1, ChildOf, SidesApart DEF up, c
    <3>5. CASE m = n
      BY <1>2, <1>4, <1>6, <1>8, <1>11, <1>14, <3>2, <3>4, <3>5
    <3>6. CASE m = up
      BY <1>2, <1>4, <1>6, <1>8, <1>11, <1>14, <3>2, <3>4, <3>6
    <3>7. CASE m # n /\ m # up
      BY <1>2, <1>4, <1>6, <3>1, <3>2, <3>3, <3>7
    <3> QED
      BY <3>5, <3>6, <3>7
  <2>2. ASSUME NEW m \in M
        PROVE  /\ P2[m] = Null => m = root2
               /\ P2[m] # Null => P2[m] \in M /\ (A2[P2[m]] = m \/ B2[P2[m]] = m)
    <3>1. /\ P[m] = Null => m = root
          /\ P[m] # Null => P[m] \in M /\ (A[P[m]] = m \/ B[P[m]] = m)
      BY DEF IsTree, Linked
    <3>2. /\ P[n] = Null => n = root
          /\ P[n] # Null => P[n] \in M /\ P[n] # n
                            /\ ((A[P[n]] = n /\ B[P[n]] # n) \/ (B[P[n]] = n /\ A[P[n]] # n))
      BY <1>1, ParentAbove, RootAbove
    <3>3. CASE m = up
      BY <1>2, <1>3, <1>6, <1>7, <3>2, <3>3
    <3>4. CASE m = n
      BY <1>1, <1>2, <1>6, <1>14, <3>4
    <3>5. CASE m = c /\ m # n /\ m # up
      BY <1>1, <1>2, <1>6, <1>14, <3>5
    <3>6. CASE m # n /\ m # up /\ m # c
      <4>1. P2[m] = P[m]
        BY <1>6, <3>6
      <4>2. P[m] = Null => m = root2
        BY <1>2, <1>7, <3>1, <3>2, <3>6, RootAbove
      <4>3. P[m] = up => B[up] = m
        BY <3>1, <3>6, <1>1, <1>2 DEF c
      <4>4. P[m] = n => A[n] = m
        BY <3>1, <3>6, <1>1 DEF up
      <4> QED
        BY <1>1, <1>6, <1>14, <3>1, <3>2, <3>6, <4>1, <4>2, <4>3, <4>4
    <3> QED
      BY <3>3, <3>4, <3>5, <3>6
  <2>3. root2 # Null => P2[root2] = Null
    <3>1. root \in M /\ P[root] = Null /\ (P[n] = Null <=> n = root)
      BY RootAbove, <1>1
    <3> QED
      BY <1>2, <1>4, <1>6, <1>7, <3>1
  <2> QED
    BY <2>1, <2>2, <2>3 DEF Linked
<1>19. Rooted(root2, M, d2)
  <2>1. root \in M /\ (P[n] = Null <=> n = root) /\ d[root] = M
    BY RootAbove, <1>1 DEF IsTree, Rooted, Below
  <2> QED
    BY <1>1, <1>2, <1>7, <1>15, <2>1 DEF Rooted, Below
<1>20. d2[n] \subseteq d[n]
  BY <1>8, <1>15
<1> QED
  BY <1>15, <1>17, <1>18, <1>19, <1>20 DEF IsTree, up

\* The tree t of the nodes M.
Sound(t, M, d) == t \in Trees /\ IsTree(t.left, t.right, KeyOf, t.parent, t.root, M, d)

\* The keys, as they look when the sides are swapped.
KeyFrom(side) == [n \in Nodes |-> IF side = "left" THEN KeyOf[n] ELSE -KeyOf[n]]

\* One may look at a tree from either side.
LEMMA FromEitherSide ==
  ASSUME NEW t \in Trees, NEW M, NEW d, NEW side \in Sides
  PROVE  Sound(t, M, d) <=>
           IsTree(t[side], t[Opposite(side)], KeyFrom(side), t.parent, t.root, M, d)
<1>1. KeyOf \in [Nodes -> Int] /\ KeyFrom(side) \in [Nodes -> Int]
  BY TreeAssumption DEF KeyFrom
<1>2. CASE side = "left"
  <2>1. KeyFrom(side) = KeyOf
    BY <1>1, <1>2 DEF KeyFrom
  <2>2. t[side] = t.left /\ t[Opposite(side)] = t.right
    BY <1>2 DEF Trees, Opposite
  <2> QED
    BY <2>1, <2>2 DEF Sound
<1>3. CASE side = "right"
  <2>1. t[side] = t.right /\ t[Opposite(side)] = t.left
    BY <1>3 DEF Trees, Opposite
  <2>2. ASSUME M \subseteq Nodes
        PROVE  /\ \A n \in M : KeyFrom(side)[n] = -KeyOf[n]
               /\ \A n \in M : KeyOf[n] = -KeyFrom(side)[n]
    BY <1>1, <1>3, <2>2 DEF KeyFrom
  <2>3. Ordered(t.left, t.right, KeyOf, M, d) <=> Ordered(t.right, t.left, KeyFrom(side), M, d)
    <3>1. Ordered(t.left, t.right, KeyOf, M, d) => Ordered(t.right, t.left, KeyFrom(side), M, d)
      <4> SUFFICES ASSUME Ordered(t.left, t.right, KeyOf, M, d)
                   PROVE  Ordered(t.right, t.left, KeyFrom(side), M, d)
        OBVIOUS
      <4>1. M \subseteq Nodes
        BY DEF Ordered
      <4> QED
        BY <1>1, <2>2, <4>1, Mirrored
    <3>2. Ordered(t.right, t.left, KeyFrom(side), M, d) => Ordered(t.left, t.right, KeyOf, M, d)
      <4> SUFFICES ASSUME Ordered(t.right, t.left, KeyFrom(side), M, d)
                   PROVE  Ordered(t.left, t.right, KeyOf, M, d)
        OBVIOUS
      <4>1. M \subseteq Nodes
        BY DEF Ordered
      <4> QED
        BY <1>1, <2>2, <4>1, Mirrored
    <3> QED
      BY <3>1, <3>2
  <2>4. Linked(t.left, t.right, t.parent, t.root, M) <=> Linked(t.right, t.left, t.parent, t.root, M)
    BY DEF Linked
  <2> QED
    BY <2>1, <2>3, <2>4 DEF Sound, IsTree
<1> QED
  BY <1>2, <1>3 DEF Sides

\* The reference to a node in t, overwritten in u.
LEMMA SetFields ==
  ASSUME NEW t \in Trees, NEW u \in Trees, NEW n \in Nodes, NEW c \in Pointers,
         NEW v, v = Set(u, ChildReference(t, n), c)
  PROVE  LET p == t.parent[n]
         IN  /\ v \in Trees /\ v.returned = u.returned
             /\ v.parent = u.parent /\ v.height = u.height
             /\ v.root = IF p = Null THEN c ELSE u.root
             /\ v.left = IF p # Null /\ t.left[p] = n THEN [u.left EXCEPT ![p] = c] ELSE u.left
             /\ v.right = IF p # Null /\ t.left[p] # n THEN [u.right EXCEPT ![p] = c] ELSE u.right
<1> DEFINE p == t.parent[n]
<1>1. p \in Pointers
  BY DEF Trees
<1>2. CASE p = Null
  <2>1. v = [u EXCEPT !.root = c]
    BY <1>2 DEF Set, ChildReference
  <2> QED
    BY <1>2, <2>1 DEF Trees
<1>3. CASE p # Null /\ t.left[p] = n
  <2>1. Ref(p, "left") # RootRef
    BY <1>3 DEF Ref, RootRef
  <2>2. v = [u EXCEPT !["left"][p] = c]
    BY <1>3, <2>1 DEF Set, ChildReference, Ref
  <2>3. p \in Nodes
    BY <1>1, <1>3 DEF Pointers
  <2> QED
    BY <1>3, <2>2, <2>3 DEF Trees
<1>4. CASE p # Null /\ t.left[p] # n
  <2>1. Ref(p, "right") # RootRef
    BY <1>4 DEF Ref, RootRef
  <2>2. v = [u EXCEPT !["right"][p] = c]
    BY <1>4, <2>1 DEF Set, ChildReference, Ref
  <2>3. p \in Nodes
    BY <1>1, <1>4 DEF Pointers
  <2> QED
    BY <1>4, <2>2, <2>3 DEF Trees
<1> QED
  BY <1>2, <1>3, <1>4

\* What a rotation does to a tree.
LEMMA RotateFields ==
  ASSUME NEW t \in Trees, NEW side \in Sides, NEW n \in Nodes, NEW up \in Nodes,
         up = t[Opposite(side)][n], up # n, t[side][n] # up,
         NEW c, c = t[side][up], c # n, c # up, t[Opposite(side)][up] # n,
         t.parent[n] # n, t.parent[n] # up,
         LET p == t.parent[n]
         IN  p # Null => (t.left[p] = n /\ t.right[p] # n) \/ (t.right[p] = n /\ t.left[p] # n),
         NEW ref, ref = ChildReference(t, n), Get(t, ref) = n,
         NEW u, u = Rotate(t, ref, side), NEW M, M \subseteq Nodes
  PROVE  /\ u \in Trees /\ u.returned = t.returned
         /\ Turned(t[side], t[Opposite(side)], t.parent, t.root,
                   u[side], u[Opposite(side)], u.parent, u.root, M, n)
         /\ \A m \in Nodes \ {n, up} : u.height[m] = t.height[m]
         /\ u.height[n] = (IF Height(t, t[side][n]) > Height(t, c)
                           THEN Height(t, t[side][n]) ELSE Height(t, c)) + 1
         /\ u.height[up] = (IF Height(u, n) > Height(t, t[Opposite(side)][up])
                            THEN Height(u, n) ELSE Height(t, t[Opposite(side)][up])) + 1
<1> DEFINE other == Opposite(side)
           p     == t.parent[n]
           moved == [t EXCEPT ![other][n] = t[side][up], ![side][up] = n]
           low   == [moved EXCEPT !.height[n] = Above(moved, n)]
           high  == [low EXCEPT !.height[up] = Above(low, up),
                                !.parent[up] = t.parent[n], !.parent[n] = up]
           done  == IF high[other][n] = Null THEN high
                    ELSE [high EXCEPT !.parent[high[other][n]] = n]
<1>1. u = Set(done, ref, up)
  <2>1. u = Set(Turn(t, n, side), ref, up)
    BY DEF Rotate
  <2>2. Turn(t, n, side) = done
    BY DEF Turn
  <2> HIDE DEF done
  <2> QED
    BY <2>1, <2>2
<1>2. other \in Sides /\ other # side
  BY DEF Sides, Opposite
<1>3. /\ t[side] \in [Nodes -> Pointers] /\ t[other] \in [Nodes -> Pointers]
      /\ c \in Pointers /\ p \in Pointers
  BY <1>2 DEF Trees, Sides
<1>4. /\ moved \in Trees /\ moved.returned = t.returned /\ moved.root = t.root
      /\ moved.height = t.height /\ moved.parent = t.parent
      /\ moved[side] = [t[side] EXCEPT ![up] = n]
      /\ moved[other] = [t[other] EXCEPT ![n] = c]
  <2>1. n \in Pointers
    BY DEF Pointers
  <2> QED
    BY <1>2, <1>3, <2>1 DEF Trees, Sides
<1> HIDE DEF moved
<1>5. \A x \in Pointers : Height(moved, x) = Height(t, x)
  BY <1>4 DEF Height
<1>6. \A x \in Pointers : Height(t, x) \in Int
  BY DEF Height, Trees, Pointers
<1> DEFINE hn == (IF Height(t, t[side][n]) > Height(t, c)
                  THEN Height(t, t[side][n]) ELSE Height(t, c)) + 1
           hu == (IF hn > Height(t, t[other][up]) THEN hn ELSE Height(t, t[other][up])) + 1
<1>7. Above(moved, n) = hn /\ hn \in Int
  <2>1. moved[side][n] = t[side][n] /\ moved[other][n] = c
    BY <1>3, <1>4
  <2>2. Height(moved, moved[side][n]) = Height(t, t[side][n])
    BY <1>3, <1>5, <2>1
  <2>3. Height(moved, moved[other][n]) = Height(t, c)
    BY <1>3, <1>5, <2>1
  <2>4. Height(t, t[side][n]) \in Int /\ Height(t, c) \in Int
    BY <1>3, <1>6
  <2>5. CASE side = "left"
    BY <2>2, <2>3, <2>4, <2>5 DEF Above, Opposite
  <2>6. CASE side = "right"
    BY <2>2, <2>3, <2>4, <2>6 DEF Above, Opposite
  <2> QED
    BY <2>5, <2>6 DEF Sides
<1>8. /\ low \in Trees /\ low.returned = t.returned /\ low.root = t.root
      /\ low.height = [t.height EXCEPT ![n] = hn] /\ low.parent = t.parent
      /\ low[side] = moved[side] /\ low[other] = moved[other]
  <2> HIDE DEF hn
  <2> QED
    BY <1>2, <1>4, <1>7 DEF Trees, Sides
<1> HIDE DEF low
<1>9. Above(low, up) = hu /\ hu \in Int
  <2>1. low[side][up] = n /\ low[other][up] = t[other][up]
    BY <1>3, <1>4, <1>8
  <2>2. Height(low, n) = hn
    BY <1>8, TreeAssumption DEF Height, Trees
  <2>3. Height(low, t[other][up]) = Height(t, t[other][up])
    <3>1. t[other][up] # n
      BY DEF Opposite
    <3>2. t[other][up] \in Pointers
      BY <1>3
    <3> HIDE DEF other
    <3> QED
      BY <1>8, <3>1, <3>2 DEF Height, Trees, Pointers
  <2>4. Height(t, t[other][up]) \in Int /\ hn \in Int
    BY <1>3, <1>6, <1>7
  <2> HIDE DEF hn
  <2>5. CASE side = "left"
    BY <2>1, <2>2, <2>3, <2>4, <2>5 DEF Above, Opposite
  <2>6. CASE side = "right"
    BY <2>1, <2>2, <2>3, <2>4, <2>6 DEF Above, Opposite
  <2> QED
    BY <2>5, <2>6 DEF Sides
<1> HIDE DEF hn, hu
<1>10. /\ high \in Trees /\ high.returned = t.returned /\ high.root = t.root
       /\ high.height = [t.height EXCEPT ![n] = hn, ![up] = hu]
       /\ high.parent = [t.parent EXCEPT ![up] = p, ![n] = up]
       /\ high[side] = [t[side] EXCEPT ![up] = n]
       /\ high[other] = [t[other] EXCEPT ![n] = c]
  <2>1. up \in Pointers
    BY DEF Pointers
  <2> QED
    BY <1>2, <1>3, <1>4, <1>7, <1>8, <1>9, <2>1 DEF Trees, Sides
<1> HIDE DEF high
<1>11. high[other][n] = c
  BY <1>3, <1>10
<1>12. /\ done \in Trees /\ done.returned = t.returned /\ done.root = t.root
       /\ done.height = high.height
       /\ done[side] = high[side] /\ done[other] = high[other]
       /\ done.parent = IF c = Null THEN high.parent ELSE [high.parent EXCEPT ![c] = n]
  <2>1. n \in Pointers
    BY DEF Pointers
  <2>2. CASE c = Null
    BY <1>10, <1>11, <2>2
  <2>3. CASE c # Null
    <3>1. c \in Nodes
      BY <1>3, <2>3 DEF Pointers
    <3>2. done = [high EXCEPT !.parent[c] = n]
      BY <1>11, <2>3
    <3> HIDE DEF done, other
    <3> QED
      BY <1>2, <1>10, <2>1, <2>3, <3>1, <3>2 DEF Trees, Sides
  <2> QED
    BY <2>2, <2>3
<1> HIDE DEF done
<1>13. /\ u \in Trees /\ u.returned = t.returned
       /\ u.parent = done.parent /\ u.height = done.height
       /\ u.root = IF p = Null THEN up ELSE t.root
       /\ u.left = IF p # Null /\ t.left[p] = n THEN [done.left EXCEPT ![p] = up] ELSE done.left
       /\ u.right = IF p # Null /\ t.left[p] # n THEN [done.right EXCEPT ![p] = up] ELSE done.right
  <2>1. up \in Pointers
    BY DEF Pointers
  <2> QED
    BY <1>1, <1>12, <2>1, SetFields
<1>14. u.height = [t.height EXCEPT ![n] = hn, ![up] = hu] /\ t.height \in [Nodes -> Int]
  BY <1>10, <1>12, <1>13 DEF Trees
<1>15. /\ \A m \in Nodes \ {n, up} : u.height[m] = t.height[m]
       /\ u.height[n] = hn /\ Height(u, n) = hn /\ u.height[up] = hu
  BY <1>14, TreeAssumption DEF Height
<1>16. \A m \in Nodes : u.parent[m] = IF m = up THEN p ELSE IF m = n THEN up
                                      ELSE IF m = c THEN n ELSE t.parent[m]
  <2>1. t.parent \in [Nodes -> Pointers]
    BY DEF Trees
  <2>2. CASE c = Null
    BY <1>10, <1>12, <1>13, <2>1, <2>2, TreeAssumption
  <2>3. CASE c # Null
    BY <1>3, <1>10, <1>12, <1>13, <2>1, <2>3 DEF Pointers
  <2> QED
    BY <2>2, <2>3
<1>17. \A m \in Nodes :
          /\ u[side][m] = IF m = up THEN n ELSE IF m = p /\ t[side][m] = n THEN up ELSE t[side][m]
          /\ u[other][m] = IF m = n THEN c ELSE IF m = p /\ t[side][m] # n THEN up ELSE t[other][m]
  <2>1. \A m \in Nodes :
          /\ done[side][m] = IF m = up THEN n ELSE t[side][m]
          /\ done[other][m] = IF m = n THEN c ELSE t[other][m]
    BY <1>3, <1>10, <1>12
  <2>2. done[side] \in [Nodes -> Pointers] /\ done[other] \in [Nodes -> Pointers]
    BY <1>2, <1>12 DEF Trees, Sides
  <2>3. p # Null => p \in Nodes
    BY <1>3 DEF Pointers
  <2>4. p # Null => (t.left[p] = n /\ t.right[p] # n) \/ (t.right[p] = n /\ t.left[p] # n)
    OBVIOUS
  <2>5. CASE side = "left"
    <3>1. other = "right"
      BY <2>5 DEF Opposite
    <3>2. /\ t[side] = t.left /\ t[other] = t.right /\ u[side] = u.left /\ u[other] = u.right
          /\ done[side] = done.left /\ done[other] = done.right
      BY <2>5, <3>1
    <3> HIDE DEF other, p
    <3> QED
      BY <1>13, <2>1, <2>2, <2>3, <2>4, <3>2, TreeAssumption DEF p
  <2>6. CASE side = "right"
    <3>1. other = "left"
      BY <2>6 DEF Opposite
    <3>2. /\ t[side] = t.right /\ t[other] = t.left /\ u[side] = u.right /\ u[other] = u.left
          /\ done[side] = done.right /\ done[other] = done.left
      BY <2>6, <3>1
    <3> HIDE DEF other, p
    <3> QED
      BY <1>13, <2>1, <2>2, <2>3, <2>4, <3>2, TreeAssumption DEF p
  <2> QED
    BY <2>5, <2>6 DEF Sides
<1>18. up # Null
  BY TreeAssumption
<1> QED
  BY <1>13, <1>15, <1>16, <1>17, <1>18 DEF Turned, hn, hu

\* What is known of a tree from one of its sides.
LEMMA SoundFrom ==
  ASSUME NEW t, NEW M, NEW d, Sound(t, M, d), NEW side \in Sides
  PROVE  /\ t \in Trees /\ M \subseteq Nodes /\ Null \notin M
         /\ IsTree(t[side], t[Opposite(side)], KeyFrom(side), t.parent, t.root, M, d)
         /\ Ordered(t[side], t[Opposite(side)], KeyFrom(side), M, d)
         /\ Opposite(side) \in Sides /\ Opposite(side) # side /\ Opposite(Opposite(side)) = side
<1>1. t \in Trees
  BY DEF Sound
<1>2. IsTree(t[side], t[Opposite(side)], KeyFrom(side), t.parent, t.root, M, d)
  BY <1>1, FromEitherSide
<1>3. Ordered(t[side], t[Opposite(side)], KeyFrom(side), M, d)
  BY <1>2 DEF IsTree
<1>4. M \subseteq Nodes
  BY <1>3 DEF Ordered
<1> QED
  BY <1>1, <1>2, <1>3, <1>4, TreeAssumption DEF Sides, Opposite

\* The pointers around a node.
LEMMA Family ==
  ASSUME NEW t, NEW M, NEW d, Sound(t, M, d), NEW n \in M, NEW side \in Sides
  PROVE  /\ t[side][n] \in M \cup {Null} /\ t[side][n] # n
         /\ t[side][n] # Null => /\ t.parent[t[side][n]] = n /\ t[side][n] # t.root
                                 /\ t[side][n] # t[Opposite(side)][n]
                                 /\ t[side][n] # t.parent[n]
                                 /\ t[side][n] \in d[n] /\ n \notin d[t[side][n]]
                                 /\ d[t[side][n]] \subseteq d[n]
         /\ t.parent[n] # n
         /\ LET p == t.parent[n]
            IN  IF p = Null THEN n = t.root
                ELSE /\ p \in M /\ n \in d[p] /\ p \notin d[n] /\ n # t.root
                     /\ (t.left[p] = n /\ t.right[p] # n) \/ (t.right[p] = n /\ t.left[p] # n)
         /\ n \in d[n] /\ d[n] \subseteq M /\ d \in [M -> SUBSET M] /\ n \in Nodes
<1> DEFINE A == t[side]
           B == t[Opposite(side)]
           K == KeyFrom(side)
           P == t.parent
<1>1. /\ IsTree(A, B, K, P, t.root, M, d) /\ Ordered(A, B, K, M, d)
      /\ Null \notin M /\ M \subseteq Nodes
  BY SoundFrom
<1>2. IsTree(t.left, t.right, KeyOf, P, t.root, M, d)
  BY DEF Sound
<1> HIDE DEF A, B, K, P
<1>3. /\ A[n] \in M \cup {Null} /\ A[n] # n
      /\ A[n] # Null => A[n] \in Below(d, A[n]) /\ A[n] # B[n] /\ P[A[n]] = n /\ A[n] # t.root
      /\ n \in d[n] /\ d[n] \subseteq M
  BY <1>1, SidesApart, ChildOf DEF Ordered
<1>4. d \in [M -> SUBSET M] /\ d[n] = {n} \cup Below(d, A[n]) \cup Below(d, B[n])
  BY <1>1 DEF Ordered
<1>5. A[n] # Null => A[n] \in d[n] /\ n \notin d[A[n]] /\ d[A[n]] \subseteq d[n]
  <2>1. n \notin Below(d, A[n])
    BY <1>1, SidesApart
  <2> QED
    BY <1>1, <1>3, <1>4, <2>1 DEF Below
<1>6. P[n] # n
  BY <1>1, ParentAbove
<1>7. P[n] # Null => P[n] \in M /\ n \in d[P[n]] /\ P[n] \notin d[n] /\ n # t.root
  BY <1>1, ParentAbove, RootAbove
<1>8. P[n] = Null => n = t.root
  BY <1>1, RootAbove
<1>9. P[n] # Null => \/ t.left[P[n]] = n /\ t.right[P[n]] # n
                     \/ t.right[P[n]] = n /\ t.left[P[n]] # n
  BY <1>2, ParentAbove
<1>10. A[n] # Null => A[n] # P[n]
  BY <1>5, <1>7
<1> QED
  BY <1>1, <1>3, <1>4, <1>5, <1>6, <1>7, <1>8, <1>9, <1>10 DEF A, B, P

\* _avlnode_child_reference() is the pointer to the node.
LEMMA ReferenceLeadsBack ==
  ASSUME NEW t, NEW M, NEW d, Sound(t, M, d), NEW n \in M
  PROVE  Get(t, ChildReference(t, n)) = n
<1>1. LET p == t.parent[n]
      IN  IF p = Null THEN n = t.root
          ELSE /\ p \in M
               /\ (t.left[p] = n /\ t.right[p] # n) \/ (t.right[p] = n /\ t.left[p] # n)
  BY Family DEF Sides
<1>2. t \in Trees
  BY DEF Sound
<1> QED
  BY <1>1, <1>2 DEF Get, ChildReference, RootRef, Ref, Trees

\* So is the pointer of its parent.
LEMMA ReferenceOfChild ==
  ASSUME NEW t, NEW M, NEW d, Sound(t, M, d), NEW n \in M, NEW side \in Sides, t[side][n] # Null
  PROVE  Ref(n, side) = ChildReference(t, t[side][n])
<1> DEFINE c == t[side][n]
<1>1. t.parent[c] = n /\ n # Null /\ c \in M
  BY Family, SoundFrom
<1>2. (t.left[n] = c /\ t.right[n] # c) \/ (t.right[n] = c /\ t.left[n] # c)
  BY <1>1, Family
<1>3. t \in Trees
  BY DEF Sound
<1>4. CASE side = "left"
  BY <1>1, <1>2, <1>3, <1>4 DEF ChildReference, Trees
<1>5. CASE side = "right"
  BY <1>1, <1>2, <1>3, <1>5 DEF ChildReference, Trees
<1> QED
  BY <1>4, <1>5 DEF Sides

Taller(h, k) == (IF h > k THEN h ELSE k) + 1

\* A rotation at n: what becomes of the tree, of what is below its nodes, and of
\* the heights.
Rotated(t, u, M, d, d2, side, n) ==
    LET other == Opposite(side)
        up    == t[other][n]
    IN  /\ Sound(u, M, d2) /\ u.returned = t.returned
        /\ Turned(t[side], t[other], t.parent, t.root, u[side], u[other], u.parent, u.root, M, n)
        /\ d2[up] = d[n] /\ d2[n] \subseteq d[n]
        /\ \A m \in M : m # n /\ m # up => d2[m] = d[m]
        /\ \A m \in M : m # n /\ m # up => u.height[m] = t.height[m]
        /\ u.height[n] = Taller(Height(t, t[side][n]), Height(t, t[side][up]))
        /\ u.height[up] = Taller(u.height[n], Height(t, t[other][up]))

LEMMA RotationKeeps ==
  ASSUME NEW t, NEW M, NEW d, Sound(t, M, d), NEW side \in Sides, NEW n \in M,
         t[Opposite(side)][n] # Null,
         NEW u, u = Rotate(t, ChildReference(t, n), side)
  PROVE  \E d2 : Rotated(t, u, M, d, d2, side, n)
<1> DEFINE other == Opposite(side)
           up    == t[other][n]
           c     == t[side][up]
<1>1. /\ t \in Trees /\ M \subseteq Nodes /\ Null \notin M /\ other \in Sides
      /\ Opposite(other) = side
      /\ IsTree(t[side], t[other], KeyFrom(side), t.parent, t.root, M, d)
  BY SoundFrom
<1>2. up \in M /\ up # n /\ t.parent[up] = n /\ t[side][n] # up /\ t.parent[n] # up
  BY <1>1, Family
<1>3. c # n /\ c # up /\ t[other][up] # n
  <2>1. /\ c # Null => t.parent[c] = up
        /\ t[other][up] # Null => t.parent[t[other][up]] = up
        /\ c # up
    BY <1>1, <1>2, Family
  <2> HIDE DEF other
  <2> QED
    BY <1>1, <1>2, <2>1
<1>4. t.parent[n] # n
  BY Family
<1>5. LET p == t.parent[n]
      IN  p # Null => (t.left[p] = n /\ t.right[p] # n) \/ (t.right[p] = n /\ t.left[p] # n)
  BY Family
<1>6. Get(t, ChildReference(t, n)) = n
  BY ReferenceLeadsBack
<1>7. /\ u \in Trees /\ u.returned = t.returned
      /\ Turned(t[side], t[other], t.parent, t.root, u[side], u[other], u.parent, u.root, M, n)
      /\ \A m \in Nodes \ {n, up} : u.height[m] = t.height[m]
      /\ u.height[n] = (IF Height(t, t[side][n]) > Height(t, c)
                        THEN Height(t, t[side][n]) ELSE Height(t, c)) + 1
      /\ u.height[up] = (IF Height(u, n) > Height(t, t[other][up])
                         THEN Height(u, n) ELSE Height(t, t[other][up])) + 1
  <2>1. up \in Nodes /\ n \in Nodes
    BY <1>1, <1>2
  <2>2. c = t[side][up]
    OBVIOUS
  <2> HIDE DEF c, up
  <2> QED
    BY <1>1, <1>2, <1>3, <1>4, <1>5, <1>6, <2>1, <2>2, RotateFields DEF up
<1>8. PICK d2 : /\ IsTree(u[side], u[other], KeyFrom(side), u.parent, u.root, M, d2)
                /\ d2[up] = d[n] /\ d2[n] \subseteq d[n]
                /\ \A m \in M : m # n /\ m # up => d2[m] = d[m]
  <2> DEFINE A == t[side]
             B == t[other]
             K == KeyFrom(side)
             A2 == u[side]
             B2 == u[other]
             P2 == u.parent
             root2 == u.root
  <2>1. /\ IsTree(A, B, K, t.parent, t.root, M, d)
        /\ Turned(A, B, t.parent, t.root, A2, B2, P2, root2, M, n)
    BY <1>1, <1>7
  <2> HIDE DEF A, B, K, A2, B2, P2, root2
  <2>2. \E d2 : /\ IsTree(A2, B2, K, P2, root2, M, d2)
                /\ d2[B[n]] = d[n] /\ d2[n] \subseteq d[n]
                /\ \A m \in M \ {n, B[n]} : d2[m] = d[m]
    BY <2>1, TurnedTree
  <2> QED
    BY <2>2 DEF A, B, K, A2, B2, P2, root2
<1>9. Sound(u, M, d2)
  BY <1>7, <1>8, FromEitherSide
<1>10. Height(u, n) = u.height[n]
  BY <1>1 DEF Height
<1> QED
  BY <1>1, <1>7, <1>8, <1>9, <1>10 DEF Rotated, Taller

\* The other nodes see the node that went up in the place of n.
Moved(t, u, M, side, n) ==
    LET other == Opposite(side)
        up    == t[other][n]
    IN  /\ up \in M /\ up # n /\ t.parent[up] = n
        /\ u[side][up] = n /\ u[other][up] = t[other][up]
        /\ u[side][n] = t[side][n] /\ u[other][n] = t[side][up]
        /\ \A m \in M, s \in Sides : m # n /\ m # up =>
              u[s][m] = IF t[s][m] = n THEN up ELSE t[s][m]
        /\ u.parent[up] = t.parent[n] /\ u.parent[n] = up
        /\ \A m \in M : m # n /\ m # up /\ m # t[side][up] => u.parent[m] = t.parent[m]

LEMMA RotatedChildren ==
  ASSUME NEW t, NEW u, NEW M, NEW d, NEW d2, NEW side \in Sides, NEW n \in M,
         Sound(t, M, d), Rotated(t, u, M, d, d2, side, n)
  PROVE  Moved(t, u, M, side, n)
<1> DEFINE other == Opposite(side)
           up    == t[other][n]
           p     == t.parent[n]
<1>1. other \in Sides /\ other # side /\ Null \notin M /\ \A s \in Sides : s = side \/ s = other
  <2>1. \A s \in Sides : s = side \/ s = other
    BY DEF Sides, Opposite
  <2> QED
    BY <2>1, SoundFrom
<1>2. /\ up # Null
      /\ \A m \in M :
            /\ u[side][m] = IF m = up THEN n ELSE IF m = p /\ t[side][m] = n THEN up ELSE t[side][m]
            /\ u[other][m] = IF m = n THEN t[side][up]
                             ELSE IF m = p /\ t[side][m] # n THEN up ELSE t[other][m]
            /\ u.parent[m] = IF m = up THEN p ELSE IF m = n THEN up
                             ELSE IF m = t[side][up] THEN n ELSE t.parent[m]
  BY DEF Rotated, Turned
<1>3. up \in M /\ up # n /\ t.parent[up] = n /\ up # p /\ p # n
  BY <1>1, <1>2, Family
<1>4. p # Null => \/ t[side][p] = n /\ t[other][p] # n
                  \/ t[other][p] = n /\ t[side][p] # n
  <2>1. t \in Trees
    BY DEF Sound
  <2>2. p # Null => (t.left[p] = n /\ t.right[p] # n) \/ (t.right[p] = n /\ t.left[p] # n)
    BY Family
  <2>3. CASE side = "left"
    BY <2>1, <2>2, <2>3 DEF Opposite, Trees
  <2>4. CASE side = "right"
    BY <2>1, <2>2, <2>4 DEF Opposite, Trees
  <2> QED
    BY <2>3, <2>4 DEF Sides
<1>5. \A m \in M, s \in Sides : t[s][m] = n => p = m
  BY <1>1, Family
<1> HIDE DEF other, up, p
<1>6. ASSUME NEW m \in M \ {n, up}, NEW s \in Sides
      PROVE  u[s][m] = IF t[s][m] = n THEN up ELSE t[s][m]
  <2>1. CASE s = side
    BY <1>2, <1>5, <2>1
  <2>2. CASE s = other
    BY <1>1, <1>2, <1>4, <1>5, <2>2
  <2> QED
    BY <1>1, <2>1, <2>2
<1>7. /\ u[side][up] = n /\ u[other][up] = t[other][up]
      /\ u[side][n] = t[side][n] /\ u[other][n] = t[side][up]
      /\ u.parent[up] = p /\ u.parent[n] = up
  BY <1>2, <1>3
<1>8. \A m \in M : m # n /\ m # up /\ m # t[side][up] => u.parent[m] = t.parent[m]
  BY <1>2
<1> QED
  BY <1>3, <1>6, <1>7, <1>8 DEF other, up, p, Moved

-----------------------------------------------------------------------------
(* Heights *)

Exact(t, n) == t.height[n] = Above(t, n)

Even(t, n) == Balance(t, n) \in {-1, 0, 1}

\* The height of n is that above its sides before one of them changed by one.
Off(t, n) ==
    \E l, r \in Int :
        /\ l - r \in -1..1 /\ t.height[n] = Taller(l, r)
        /\ \/ l = Height(t, t.left[n]) /\ r - Height(t, t.right[n]) \in -1..1
           \/ r = Height(t, t.right[n]) /\ l - Height(t, t.left[n]) \in -1..1

\* The tree is balanced but for what has happened below x.
Near(t, M, d, x) ==
    /\ Sound(t, M, d) /\ t.returned
    /\ \A m \in M : t.height[m] >= 0
    /\ \A m \in M : m # x => Exact(t, m) /\ Even(t, m)
    /\ x \in M \cup {Null}
    /\ x # Null => Off(t, x)

LEMMA HeightsAreNumbers ==
  ASSUME NEW t, NEW M, NEW d, Sound(t, M, d), NEW n \in M, NEW side \in Sides
  PROVE  /\ t.height[n] \in Int /\ Height(t, n) = t.height[n]
         /\ Height(t, t[side][n]) \in Int
         /\ Above(t, n) = Taller(Height(t, t.left[n]), Height(t, t.right[n]))
         /\ Above(t, n) = Taller(Height(t, t[side][n]), Height(t, t[Opposite(side)][n]))
         /\ Above(t, n) \in Int
         /\ Balance(t, n) = Height(t, t.right[n]) - Height(t, t.left[n])
<1>1. t \in Trees /\ Null \notin M /\ M \subseteq Nodes
  BY SoundFrom
<1>2. \A s \in Sides : t[s][n] \in M \cup {Null}
  BY Family
<1>3. \A x \in M \cup {Null} : Height(t, x) \in Int
  BY <1>1 DEF Height, Trees
<1>4. Height(t, t.left[n]) \in Int /\ Height(t, t.right[n]) \in Int /\ Height(t, t[side][n]) \in Int
  <2>1. t.left[n] \in M \cup {Null} /\ t.right[n] \in M \cup {Null}
    BY <1>2 DEF Sides
  <2> QED
    BY <1>2, <1>3, <2>1
<1>5. t.height[n] \in Int /\ Height(t, n) = t.height[n]
  BY <1>1 DEF Height, Trees
<1>6. Above(t, n) = Taller(Height(t, t.left[n]), Height(t, t.right[n])) /\ Above(t, n) \in Int
  BY <1>4 DEF Above, Taller
<1>7. Balance(t, n) = Height(t, t.right[n]) - Height(t, t.left[n])
  BY <1>1 DEF Balance
<1>8. Above(t, n) = Taller(Height(t, t[side][n]), Height(t, t[Opposite(side)][n]))
  <2>1. CASE side = "left"
    BY <1>6, <2>1 DEF Opposite
  <2>2. CASE side = "right"
    BY <1>4, <1>6, <2>2 DEF Opposite, Taller
  <2> QED
    BY <2>1, <2>2 DEF Sides
<1> QED
  BY <1>4, <1>5, <1>6, <1>7, <1>8

\* What a change by one leads to.
ByTwo(t, n, side) ==
    LET h == Height(t, t[side][n])
        k == Height(t, t[Opposite(side)][n])
    IN  /\ h - k \in -2..2 /\ Taller(h, k) - t.height[n] \in {-1, 0, 1}
        /\ h = k + 2 => t.height[n] \in {k + 2, k + 3}

LEMMA OffByOne ==
  ASSUME NEW t, NEW M, NEW d, Sound(t, M, d), NEW n \in M, Off(t, n), NEW side \in Sides
  PROVE  ByTwo(t, n, side)
<1>1. /\ Height(t, t.left[n]) \in Int /\ Height(t, t.right[n]) \in Int
      /\ t.height[n] \in Int
  BY HeightsAreNumbers DEF Sides
<1>2. PICK l \in Int, r \in Int :
        /\ l - r \in -1..1 /\ t.height[n] = Taller(l, r)
        /\ \/ l = Height(t, t.left[n]) /\ r - Height(t, t.right[n]) \in -1..1
           \/ r = Height(t, t.right[n]) /\ l - Height(t, t.left[n]) \in -1..1
  BY DEF Off
<1>3. CASE side = "left"
  <2>1. t[side] = t.left /\ t[Opposite(side)] = t.right
    BY <1>3 DEF Opposite
  <2> QED
    BY <1>1, <1>2, <2>1 DEF Taller, ByTwo
<1>4. CASE side = "right"
  <2>1. t[side] = t.right /\ t[Opposite(side)] = t.left
    BY <1>4 DEF Opposite
  <2> QED
    BY <1>1, <1>2, <2>1 DEF Taller, ByTwo
<1> QED
  BY <1>3, <1>4 DEF Sides

\* The nodes at and above x.
Over(d, M, x) == {m \in M : x \in d[m]}

\* The nodes C, x and some below it, have been put in balance with "top" in the
\* place of x, which has become higher or lower by at most one.
Settled(t, u, M, d, d2, x, C, top) ==
    /\ Sound(u, M, d2) /\ u.returned
    /\ x \in C /\ top \in C /\ C \subseteq d[x]
    /\ \A c \in C \ {x} : t.parent[c] \in C
    /\ \A m \in M \ C :
          /\ u.height[m] = t.height[m] /\ d2[m] = d[m]
          /\ \A s \in Sides : u[s][m] = IF t[s][m] = x THEN top ELSE t[s][m]
    /\ \A c \in C : u.height[c] >= 0 /\ Exact(u, c) /\ Even(u, c) /\ d2[c] \subseteq d[x]
    /\ u.height[top] - t.height[x] \in {-1, 0, 1}

\* Then only the parent of x may be out of balance.
LEMMA SettledNear ==
  ASSUME NEW t, NEW u, NEW M, NEW d, NEW d2, NEW x \in M, NEW C, NEW top,
         Near(t, M, d, x), Settled(t, u, M, d, d2, x, C, top)
  PROVE  /\ Near(u, M, d2, t.parent[x])
         /\ Over(d2, M, t.parent[x]) \subseteq Over(d, M, x) \ {x}
<1> DEFINE q == t.parent[x]
<1>1. /\ Sound(t, M, d) /\ Sound(u, M, d2) /\ u.returned /\ Null \notin M
      /\ C \subseteq M /\ top \in M
  <2>1. Sound(t, M, d)
    BY DEF Near
  <2>2. d[x] \subseteq M
    BY <2>1, Family DEF Sides
  <2> QED
    BY <2>1, <2>2, SoundFrom DEF Settled, Sides
<1>2. q # Null => q \in M /\ x \in d[q] /\ q \notin d[x]
  BY <1>1, Family DEF Sides
<1>3. \A m \in M, s \in Sides : /\ t[s][m] \in M \cup {Null}
                                /\ t[s][m] # Null => t.parent[t[s][m]] = m
  BY <1>1, Family
<1>4. q \notin C
  BY <1>1, <1>2 DEF Settled
<1>5. ASSUME NEW m \in M \ C, NEW s \in Sides, m # q
      PROVE  u[s][m] = t[s][m] /\ Height(u, u[s][m]) = Height(t, t[s][m])
  <2>1. t[s][m] # x
    BY <1>1, <1>3, <1>5
  <2>2. u[s][m] = t[s][m]
    BY <1>5, <2>1 DEF Settled
  <2>3. t[s][m] \notin C
    BY <1>1, <1>3, <1>5, <2>1 DEF Settled
  <2>4. t[s][m] # Null => u.height[t[s][m]] = t.height[t[s][m]]
    BY <1>3, <2>3 DEF Settled
  <2> QED
    BY <2>2, <2>4 DEF Height
<1>6. ASSUME NEW m \in M, m # q
      PROVE  u.height[m] >= 0 /\ Exact(u, m) /\ Even(u, m)
  <2>1. CASE m \in C
    BY <2>1 DEF Settled
  <2>2. CASE m \notin C
    <3>1. m # x
      BY <2>2 DEF Settled
    <3>2. u.height[m] = t.height[m] /\ Exact(t, m) /\ Even(t, m) /\ t.height[m] >= 0
      BY <2>2, <3>1 DEF Near, Settled
    <3>3. /\ Height(u, u.left[m]) = Height(t, t.left[m])
          /\ Height(u, u.right[m]) = Height(t, t.right[m])
      BY <1>5, <1>6, <2>2 DEF Sides
    <3>4. /\ Above(u, m) = Taller(Height(u, u.left[m]), Height(u, u.right[m]))
          /\ Above(t, m) = Taller(Height(t, t.left[m]), Height(t, t.right[m]))
          /\ Balance(u, m) = Height(u, u.right[m]) - Height(u, u.left[m])
          /\ Balance(t, m) = Height(t, t.right[m]) - Height(t, t.left[m])
      BY <1>1, HeightsAreNumbers DEF Sides
    <3> QED
      BY <3>2, <3>3, <3>4 DEF Exact, Even
  <2> QED
    BY <2>1, <2>2
<1>7. ASSUME q # Null
      PROVE  u.height[q] >= 0 /\ Off(u, q)
  <2>1. q \in M \ C /\ q # x
    BY <1>2, <1>4, <1>7 DEF Settled
  <2>2. u.height[q] = t.height[q] /\ Exact(t, q) /\ Even(t, q) /\ t.height[q] >= 0
    BY <2>1 DEF Near, Settled
  <2>3. ASSUME NEW s \in Sides
        PROVE  /\ t[s][q] = x => u[s][q] = top
               /\ t[s][q] # x => Height(u, u[s][q]) = Height(t, t[s][q])
    <3>1. t[s][q] = x => u[s][q] = top
      BY <2>1 DEF Settled
    <3>2. ASSUME t[s][q] # x
          PROVE  Height(u, u[s][q]) = Height(t, t[s][q])
      <4>1. u[s][q] = t[s][q]
        BY <2>1, <3>2 DEF Settled
      <4>2. t[s][q] \notin C
        BY <1>1, <1>3, <2>1, <3>2 DEF Settled
      <4>3. t[s][q] # Null => u.height[t[s][q]] = t.height[t[s][q]]
        BY <1>3, <2>1, <4>2 DEF Settled
      <4> QED
        BY <4>1, <4>3 DEF Height
    <3> QED
      BY <3>1, <3>2
  <2>4. /\ Height(u, top) = u.height[top] /\ Height(t, x) = t.height[x]
        /\ u.height[top] \in Int /\ t.height[x] \in Int
        /\ u.height[top] - t.height[x] \in {-1, 0, 1}
    BY <1>1, HeightsAreNumbers DEF Settled, Sides
  <2>5. /\ Above(t, q) = Taller(Height(t, t.left[q]), Height(t, t.right[q]))
        /\ Balance(t, q) = Height(t, t.right[q]) - Height(t, t.left[q])
        /\ Height(t, t.left[q]) \in Int /\ Height(t, t.right[q]) \in Int
        /\ Height(u, u.left[q]) \in Int /\ Height(u, u.right[q]) \in Int
    BY <1>1, <2>1, HeightsAreNumbers DEF Sides
  <2>6. (t.left[q] = x /\ t.right[q] # x) \/ (t.right[q] = x /\ t.left[q] # x)
    BY <1>1, <1>7, Family DEF Sides
  <2>7. CASE t.left[q] = x /\ t.right[q] # x
    <3>1. Height(u, u.left[q]) = u.height[top] /\ Height(u, u.right[q]) = Height(t, t.right[q])
      BY <2>3, <2>4, <2>7 DEF Sides
    <3>2. t.height[q] = Taller(t.height[x], Height(t, t.right[q]))
      BY <2>2, <2>4, <2>5, <2>7 DEF Exact
    <3>3. t.height[x] - Height(t, t.right[q]) \in -1..1
      BY <2>2, <2>4, <2>5, <2>7 DEF Even
    <3> QED
      BY <2>2, <2>4, <2>5, <3>1, <3>2, <3>3 DEF Off
  <2>8. CASE t.right[q] = x /\ t.left[q] # x
    <3>1. Height(u, u.right[q]) = u.height[top] /\ Height(u, u.left[q]) = Height(t, t.left[q])
      BY <2>3, <2>4, <2>8 DEF Sides
    <3>2. t.height[q] = Taller(Height(t, t.left[q]), t.height[x])
      BY <2>2, <2>4, <2>5, <2>8 DEF Exact
    <3>3. Height(t, t.left[q]) - t.height[x] \in -1..1
      BY <2>2, <2>4, <2>5, <2>8 DEF Even
    <3> QED
      BY <2>2, <2>4, <2>5, <3>1, <3>2, <3>3 DEF Off
  <2> QED
    BY <2>2, <2>6, <2>7, <2>8
<1>8. Near(u, M, d2, q)
  <2>1. q \in M \cup {Null}
    BY <1>2
  <2> QED
    BY <1>1, <1>6, <1>7, <2>1 DEF Near
<1>9. ASSUME NEW m \in M, q \in d2[m]
      PROVE  x \in d[m] /\ m # x
  <2>1. q \in M
    BY <1>1, <1>9, Family DEF Sides
  <2>2. m \notin C
    BY <1>1, <1>2, <1>9, <2>1 DEF Settled
  <2>3. q \in d[m] /\ m # x
    BY <1>9, <2>2 DEF Settled
  <2>4. IsTree(t.left, t.right, KeyOf, t.parent, t.root, M, d)
    BY <1>1 DEF Sound
  <2>5. Ordered(t.left, t.right, KeyOf, M, d)
    BY <2>4 DEF IsTree
  <2>6. d[q] \subseteq d[m]
    BY <2>3, <2>5, BelowBelow
  <2> QED
    BY <1>1, <1>2, <2>1, <2>3, <2>6
<1> QED
  BY <1>8, <1>9 DEF Over

Heightened(t, x, h) == [t EXCEPT !.height[x] = h]

OnlyHeight(t, u, M, x, h) ==
    /\ u.returned = t.returned /\ u.parent = t.parent /\ u.root = t.root
    /\ \A s \in Sides : u[s] = t[s]
    /\ u.height[x] = h /\ \A m \in M : m # x => u.height[m] = t.height[m]
    /\ \A m \in M \cup {Null} : m # x => Height(u, m) = Height(t, m)

\* The shape of a tree does not hang on its heights.
LEMMA HeightSet ==
  ASSUME NEW t, NEW M, NEW d, Sound(t, M, d), NEW x \in M, NEW h \in Int
  PROVE  Sound(Heightened(t, x, h), M, d) /\ OnlyHeight(t, Heightened(t, x, h), M, x, h)
<1> DEFINE u == Heightened(t, x, h)
<1>1. t \in Trees /\ M \subseteq Nodes /\ Null \notin M
  BY SoundFrom DEF Sides
<1>2. /\ u \in Trees /\ u.left = t.left /\ u.right = t.right /\ u.parent = t.parent
      /\ u.root = t.root /\ u.returned = t.returned
      /\ \A s \in Sides : u[s] = t[s]
      /\ u.height = [t.height EXCEPT ![x] = h]
  BY <1>1 DEF Trees, Sides, Heightened
<1> HIDE DEF u
<1>3. t.height \in [Nodes -> Int] /\ x \in Nodes
  BY <1>1 DEF Trees
<1>4. u.height[x] = h /\ \A m \in M : m # x => u.height[m] = t.height[m]
  BY <1>1, <1>2, <1>3
<1>5. \A m \in M \cup {Null} : m # x => Height(u, m) = Height(t, m)
  BY <1>4 DEF Height
<1>6. Sound(u, M, d)
  BY <1>2 DEF Sound
<1> QED
  BY <1>2, <1>4, <1>5, <1>6 DEF OnlyHeight, u

\* The balance of a node, from either side.
LEMMA Leaning ==
  ASSUME NEW t, NEW M, NEW d, Sound(t, M, d), NEW n \in M, NEW side \in Sides
  PROVE  LET h == Height(t, t[side][n])
             k == Height(t, t[Opposite(side)][n])
         IN  /\ Even(t, n) <=> h - k \in -1..1
             /\ (IF side = "left" THEN Balance(t, n) >= 1 ELSE Balance(t, n) <= -1) <=> k > h
             /\ Balance(t, n) = IF side = "left" THEN k - h ELSE h - k
<1>1. /\ Height(t, t.left[n]) \in Int /\ Height(t, t.right[n]) \in Int
      /\ Balance(t, n) = Height(t, t.right[n]) - Height(t, t.left[n])
  BY HeightsAreNumbers DEF Sides
<1>2. CASE side = "left"
  BY <1>1, <1>2 DEF Opposite, Even
<1>3. CASE side = "right"
  BY <1>1, <1>3 DEF Opposite, Even
<1> QED
  BY <1>2, <1>3 DEF Sides

\* The node x has a child y on the side "deep" that is two higher than what is
\* on the other side; "high" is the tree with the height of x put right.
Steep(t, M, d, x, deep, y, high) ==
    LET other == Opposite(deep)
        s     == Height(t, t[other][x])
    IN  /\ Sound(t, M, d) /\ Null \notin M
        /\ other \in Sides /\ other # deep /\ Opposite(other) = deep
        /\ s \in Int /\ s >= -1
        /\ y \in M /\ y # x /\ y = t[deep][x] /\ t.parent[y] = x /\ y # t[other][x]
        /\ y \in d[x] /\ x \in d[x] /\ t.parent[x] \notin d[x]
        /\ t.height[y] = s + 2 /\ Exact(t, y) /\ Even(t, y)
        /\ t.height[x] \in {s + 2, s + 3}
        /\ Sound(high, M, d) /\ high.returned /\ high.parent = t.parent /\ high.root = t.root
        /\ \A side \in Sides : high[side] = t[side]
        /\ \A m \in M : m # x => high.height[m] = t.height[m]
        /\ \A m \in M \cup {Null} : m # x => Height(high, m) = Height(t, m)

LEMMA OneSideHigher ==
  ASSUME NEW t, NEW M, NEW d, NEW x \in M, Near(t, M, d, x), NEW deep \in Sides,
         Height(t, t[deep][x]) = Height(t, t[Opposite(deep)][x]) + 2,
         NEW high, high = Heightened(t, x, Above(t, x)),
         NEW y, y = t[deep][x]
  PROVE  Steep(t, M, d, x, deep, y, high)
<1> DEFINE other == Opposite(deep)
           s     == Height(t, t[other][x])
<1>1. /\ Sound(t, M, d) /\ t.returned /\ Off(t, x) /\ Null \notin M
      /\ other \in Sides /\ other # deep /\ Opposite(other) = deep
  <2>1. Sound(t, M, d) /\ x # Null => Off(t, x)
    BY DEF Near
  <2> QED
    BY <2>1, SoundFrom DEF Near
<1>2. Above(t, x) \in Int /\ s \in Int /\ s >= -1
  <2>1. Above(t, x) \in Int /\ s \in Int
    BY <1>1, HeightsAreNumbers
  <2>2. t[other][x] \in M \cup {Null}
    <3> HIDE DEF other
    <3> QED
      BY <1>1, Family
  <2> QED
    BY <2>1, <2>2 DEF Near, Height
<1>3. y \in M /\ y # x /\ t.parent[y] = x /\ y # t[other][x] /\ y \in d[x] /\ x \in d[x]
  <2>1. y # Null
    BY <1>2 DEF Height
  <2> QED
    BY <1>1, <2>1, Family
<1>4. t.parent[x] \notin d[x]
  <2>1. t.parent[x] # Null => t.parent[x] \notin d[x]
    BY <1>1, Family
  <2>2. d[x] \subseteq M
    BY <1>1, Family
  <2> QED
    BY <1>1, <2>1, <2>2
<1>5. t.height[y] = s + 2 /\ Exact(t, y) /\ Even(t, y)
  <2>1. Exact(t, y) /\ Even(t, y)
    BY <1>3 DEF Near
  <2>2. t.height[y] = s + 2
    BY <1>1, <1>3, HeightsAreNumbers
  <2> QED
    BY <2>1, <2>2
<1>6. t.height[x] \in {s + 2, s + 3}
  <2>1. ByTwo(t, x, deep)
    BY <1>1, OffByOne
  <2> QED
    BY <1>1, <2>1 DEF ByTwo
<1>7. /\ Sound(high, M, d) /\ high.returned /\ high.parent = t.parent /\ high.root = t.root
      /\ \A side \in Sides : high[side] = t[side]
      /\ \A m \in M : m # x => high.height[m] = t.height[m]
      /\ \A m \in M \cup {Null} : m # x => Height(high, m) = Height(t, m)
  <2>1. Sound(high, M, d) /\ OnlyHeight(t, high, M, x, Above(t, x))
    BY <1>1, <1>2, HeightSet
  <2> QED
    BY <1>1, <2>1 DEF OnlyHeight
<1> QED
  BY <1>1, <1>2, <1>3, <1>4, <1>5, <1>6, <1>7 DEF Steep

\* Where x is once its height is right: still in its place, or below the node
\* that took it.
Placed(t, u, x, top) ==
    \/ top = x /\ u.parent[x] = t.parent[x]
    \/ top # x /\ u.parent[x] = top /\ u.parent[top] = t.parent[x]

\* Where one rotation is enough.
LEMMA LiftedOnce ==
  ASSUME NEW t, NEW M, NEW d, NEW x \in M, NEW deep \in Sides, NEW y, NEW high,
         Steep(t, M, d, x, deep, y, high),
         Height(t, t[Opposite(deep)][y]) <= Height(t, t[deep][y]),
         NEW u, u = Rotate(high, ChildReference(high, x), Opposite(deep))
  PROVE  \E d2, C, top : Settled(t, u, M, d, d2, x, C, top) /\ Placed(t, u, x, top)
<1> DEFINE other == Opposite(deep)
           s     == Height(t, t[other][x])
           a     == Height(t, t[deep][y])
           b     == Height(t, t[other][y])
<1>1. /\ Sound(t, M, d) /\ Null \notin M
      /\ other \in Sides /\ other # deep /\ Opposite(other) = deep
      /\ s \in Int /\ s >= -1 /\ t.height[x] \in {s + 2, s + 3}
      /\ Sound(high, M, d) /\ high.returned /\ high.parent = t.parent
      /\ \A side \in Sides : high[side] = t[side]
      /\ \A m \in M : m # x => high.height[m] = t.height[m]
      /\ \A m \in M \cup {Null} : m # x => Height(high, m) = Height(t, m)
  BY DEF Steep
<1>2. /\ y \in M /\ y # x /\ y = t[deep][x] /\ t.parent[y] = x /\ y # t[other][x]
      /\ y \in d[x] /\ x \in d[x] /\ t.height[y] = s + 2 /\ Exact(t, y) /\ Even(t, y)
  BY DEF Steep
<1>3. a \in Int /\ b \in Int /\ a - b \in -1..1 /\ s + 2 = Taller(a, b) /\ b <= a
  <2>1. Above(t, y) = Taller(a, b) /\ a \in Int
    BY <1>1, <1>2, HeightsAreNumbers
  <2>2. b \in Int
    <3> HIDE DEF other
    <3> QED
      BY <1>1, <1>2, HeightsAreNumbers DEF b
  <2>3. Even(t, y) <=> a - b \in -1..1
    BY <1>1, <1>2, Leaning
  <2> QED
    BY <1>2, <2>1, <2>2, <2>3 DEF Exact
<1>4. a = s + 1 /\ b \in {s, s + 1}
  BY <1>1, <1>3 DEF Taller
<1>5. PICK d2 : Rotated(high, u, M, d, d2, other, x)
  <2>1. high[deep][x] # Null
    BY <1>1, <1>2
  <2> QED
    BY <1>1, <2>1, RotationKeeps
<1>6. /\ u[other][y] = x /\ u[deep][y] = t[deep][y]
      /\ u[other][x] = t[other][x] /\ u[deep][x] = t[other][y]
      /\ \A m \in M, side \in Sides : m # x /\ m # y =>
            u[side][m] = IF t[side][m] = x THEN y ELSE t[side][m]
      /\ u.parent[y] = t.parent[x] /\ u.parent[x] = y
  <2>1. high[deep] = t[deep] /\ high[other] = t[other]
    BY <1>1
  <2> HIDE DEF other
  <2>2. Moved(high, u, M, other, x)
    BY <1>1, <1>5, RotatedChildren
  <2> QED
    BY <1>1, <1>2, <2>1, <2>2 DEF Moved
<1>7. /\ Sound(u, M, d2) /\ u.returned
      /\ d2[y] = d[x] /\ d2[x] \subseteq d[x]
      /\ \A m \in M : m # x /\ m # y => d2[m] = d[m] /\ u.height[m] = t.height[m]
      /\ u.height[x] = Taller(Height(high, t[other][x]), Height(high, t[other][y]))
      /\ u.height[y] = Taller(u.height[x], Height(high, t[deep][y]))
  <2>1. high[deep] = t[deep] /\ high[other] = t[other]
    BY <1>1
  <2> HIDE DEF other
  <2> QED
    BY <1>1, <1>2, <1>5, <2>1 DEF Rotated
<1>8. ASSUME NEW side \in Sides
      PROVE  t[side][y] \in M \cup {Null} /\ t[side][y] # x /\ t[side][y] # y
  <2>1. t.parent[x] # y
    BY <1>2 DEF Steep
  <2> QED
    BY <1>1, <1>2, <2>1, Family
<1>9. t[other][x] \in M \cup {Null} /\ t[other][x] # x
  BY <1>1, Family
<1>10. ASSUME NEW m \in M \cup {Null}, m # x, m # y
       PROVE  Height(u, m) = Height(t, m) /\ Height(high, m) = Height(t, m)
  BY <1>1, <1>7, <1>10 DEF Height
<1>11. u.height[x] = Taller(s, b) /\ u.height[y] = Taller(u.height[x], a)
  BY <1>1, <1>2, <1>7, <1>8, <1>9, <1>10
<1>12. /\ u.height[x] \in {s + 1, s + 2} /\ u.height[y] \in {s + 2, s + 3}
       /\ u.height[x] >= 0 /\ u.height[y] >= 0
       /\ u.height[y] - t.height[x] \in {-1, 0, 1}
  BY <1>1, <1>4, <1>11 DEF Taller
<1>13. /\ Height(u, u[other][x]) = s /\ Height(u, u[deep][x]) = b
       /\ Height(u, u[other][y]) = u.height[x] /\ Height(u, u[deep][y]) = a
  <2>1. Height(u, x) = u.height[x]
    BY <1>1 DEF Height
  <2> HIDE DEF other
  <2> QED
    BY <1>1, <1>2, <1>6, <1>8, <1>9, <1>10, <2>1
<1> HIDE DEF other, s, a, b
<1>14. Exact(u, x) /\ Even(u, x)
  <2>1. Above(u, x) = Taller(Height(u, u[other][x]), Height(u, u[deep][x]))
    BY <1>1, <1>7, HeightsAreNumbers
  <2>2. Even(u, x) <=> Height(u, u[other][x]) - Height(u, u[deep][x]) \in -1..1
    BY <1>1, <1>7, Leaning
  <2> QED
    BY <1>1, <1>4, <1>11, <1>13, <2>1, <2>2 DEF Exact
<1>15. Exact(u, y) /\ Even(u, y)
  <2>1. Above(u, y) = Taller(Height(u, u[other][y]), Height(u, u[deep][y]))
    BY <1>1, <1>2, <1>7, HeightsAreNumbers
  <2>2. Even(u, y) <=> Height(u, u[other][y]) - Height(u, u[deep][y]) \in -1..1
    BY <1>1, <1>2, <1>7, Leaning
  <2> QED
    BY <1>1, <1>4, <1>11, <1>12, <1>13, <2>1, <2>2 DEF Exact
<1>16. Settled(t, u, M, d, d2, x, {x, y}, y)
  BY <1>2, <1>6, <1>7, <1>12, <1>14, <1>15 DEF Settled
<1>17. Placed(t, u, x, y)
  BY <1>2, <1>6 DEF Placed
<1> QED
  BY <1>16, <1>17

\* Where the child y leans inwards its child g goes above both.
LEMMA LiftedTwice ==
  ASSUME NEW t, NEW M, NEW d, NEW x \in M, NEW deep \in Sides, NEW y, NEW high,
         Steep(t, M, d, x, deep, y, high),
         Height(t, t[Opposite(deep)][y]) > Height(t, t[deep][y]),
         Near(t, M, d, x),
         NEW first, first = Rotate(high, Ref(x, deep), deep),
         NEW u, u = Rotate(first, ChildReference(high, x), Opposite(deep))
  PROVE  \E d2, C, top : Settled(t, u, M, d, d2, x, C, top) /\ Placed(t, u, x, top)
<1> DEFINE other == Opposite(deep)
           s     == Height(t, t[other][x])
           a     == Height(t, t[deep][y])
           g     == t[other][y]
           b     == Height(t, g)
           p     == Height(t, t[deep][g])
           q     == Height(t, t[other][g])
<1>1. /\ Sound(t, M, d) /\ Null \notin M
      /\ other \in Sides /\ other # deep /\ Opposite(other) = deep
      /\ s \in Int /\ s >= -1 /\ t.height[x] \in {s + 2, s + 3}
      /\ Sound(high, M, d) /\ high.returned /\ high.parent = t.parent
      /\ \A side \in Sides : high[side] = t[side]
      /\ \A m \in M : m # x => high.height[m] = t.height[m]
      /\ \A m \in M \cup {Null} : m # x => Height(high, m) = Height(t, m)
  BY DEF Steep
<1>2. /\ y \in M /\ y # x /\ y = t[deep][x] /\ t.parent[y] = x /\ y # t[other][x]
      /\ y \in d[x] /\ x \in d[x] /\ t.height[y] = s + 2 /\ Exact(t, y) /\ Even(t, y)
      /\ t.parent[x] \notin d[x]
  BY DEF Steep
<1>3. a \in Int /\ b \in Int /\ a - b \in -1..1 /\ s + 2 = Taller(a, b) /\ b > a
  <2>1. Above(t, y) = Taller(a, b) /\ a \in Int
    BY <1>1, <1>2, HeightsAreNumbers
  <2>2. b \in Int
    <3> HIDE DEF other
    <3> QED
      BY <1>1, <1>2, HeightsAreNumbers DEF b
  <2>3. Even(t, y) <=> a - b \in -1..1
    BY <1>1, <1>2, Leaning
  <2> QED
    BY <1>2, <2>1, <2>2, <2>3 DEF Exact
<1>4. b = s + 1 /\ a = s
  BY <1>1, <1>3 DEF Taller
<1>5. g # Null
  BY <1>1, <1>4 DEF Height
<1> HIDE DEF other, s, a, b, p, q
<1>6. /\ g \in M /\ g # y /\ t.parent[g] = y /\ g # t[deep][y] /\ g # x
      /\ g \in d[y] /\ d[y] \subseteq d[x] /\ g \in d[x]
  <2>1. /\ g \in M /\ g # y /\ t.parent[g] = y /\ g # t[deep][y]
        /\ g \in d[y]
    BY <1>1, <1>2, <1>5, Family
  <2>2. d[y] \subseteq d[x] /\ x \notin d[y]
    BY <1>1, <1>2, Family
  <2> QED
    BY <2>1, <2>2
<1> HIDE DEF g
<1>7. p \in Int /\ q \in Int /\ p - q \in -1..1 /\ s + 1 = Taller(p, q)
  <2>1. Above(t, g) = Taller(p, q) /\ p \in Int
    BY <1>1, <1>6, HeightsAreNumbers DEF p, q, other
  <2>2. q \in Int
    BY <1>1, <1>6, HeightsAreNumbers DEF q
  <2>3. Even(t, g) <=> p - q \in -1..1
    BY <1>1, <1>6, Leaning DEF p, q, other
  <2>4. b = t.height[g]
    BY <1>1, <1>6 DEF b, Height
  <2>5. Exact(t, g) /\ Even(t, g)
    BY <1>6 DEF Near
  <2> QED
    BY <1>4, <2>1, <2>2, <2>3, <2>4, <2>5 DEF Exact
<1>8. p \in {s, s - 1} /\ q \in {s, s - 1}
  BY <1>1, <1>7 DEF Taller
<1>9. ASSUME NEW side \in Sides
      PROVE  t[side][g] \in M \cup {Null} /\ t[side][g] # x /\ t[side][g] # y /\ t[side][g] # g
  <2>1. t.parent[x] # g
    BY <1>2, <1>6
  <2> QED
    BY <1>1, <1>2, <1>6, <2>1, Family
<1>10. /\ t[deep][y] \in M \cup {Null} /\ t[deep][y] # x /\ t[deep][y] # y
       /\ t[other][x] \in M \cup {Null} /\ t[other][x] # x /\ t[other][x] # g
  <2>1. t.parent[x] # y
    BY <1>2
  <2>2. t[deep][y] \in M \cup {Null} /\ t[deep][y] # x /\ t[deep][y] # y
    BY <1>1, <1>2, <2>1, Family
  <2> QED
    BY <1>1, <1>2, <1>6, <2>2, Family
<1>11. PICK d1 : Rotated(high, first, M, d, d1, deep, y)
  <2>1. Ref(x, deep) = ChildReference(high, y)
    BY <1>1, <1>2, ReferenceOfChild
  <2>2. high[Opposite(deep)][y] # Null
    BY <1>1, <1>5 DEF g, other
  <2> QED
    BY <1>1, <1>2, <2>1, <2>2, RotationKeeps
<1>12. /\ first[deep][g] = y /\ first[other][g] = t[other][g]
       /\ first[deep][y] = t[deep][y] /\ first[other][y] = t[deep][g]
       /\ \A m \in M, side \in Sides : m # y /\ m # g =>
             first[side][m] = IF t[side][m] = y THEN g ELSE t[side][m]
       /\ first.parent[y] = g /\ first.parent[x] = t.parent[x]
  <2>1. high[deep] = t[deep] /\ high[other] = t[other]
    BY <1>1
  <2>2. Moved(high, first, M, deep, y)
    BY <1>1, <1>2, <1>11, RotatedChildren
  <2>3. high[other][y] = g
    BY <2>1 DEF g
  <2>4. /\ first[deep][g] = y /\ first[other][g] = high[other][g]
        /\ first[deep][y] = high[deep][y] /\ first[other][y] = high[deep][g]
        /\ \A m \in M, side \in Sides : m # y /\ m # g =>
              first[side][m] = IF high[side][m] = y THEN g ELSE high[side][m]
        /\ first.parent[y] = g
        /\ \A m \in M : m # y /\ m # g /\ m # high[deep][g] => first.parent[m] = high.parent[m]
    BY <2>2, <2>3 DEF Moved, other
  <2> QED
    BY <1>1, <1>2, <1>6, <1>9, <2>1, <2>4
<1>13. /\ Sound(first, M, d1) /\ first.returned
       /\ d1[g] = d[y] /\ d1[y] \subseteq d[y]
       /\ \A m \in M : m # y /\ m # g => d1[m] = d[m] /\ first.height[m] = high.height[m]
       /\ first.height[y] = Taller(a, p)
  <2>1. high[deep] = t[deep] /\ high[other] = t[other]
    BY <1>1
  <2>2. Height(high, t[deep][y]) = a /\ Height(high, t[deep][g]) = p
    BY <1>1, <1>9, <1>10 DEF a, p
  <2> QED
    BY <1>1, <1>2, <1>11, <2>1, <2>2 DEF Rotated, other, g
<1>14. first[deep][x] = g /\ first[other][x] = t[other][x]
  BY <1>1, <1>2, <1>6, <1>12
<1>15. ChildReference(first, x) = ChildReference(high, x)
  <2> DEFINE z == t.parent[x]
  <2>1. z # Null => z \in M /\ z # y /\ z # g
    <3>1. z # Null => z \in M
      BY <1>1, Family
    <3> QED
      BY <1>2, <1>6, <3>1
  <2>2. z # Null => t.left[z] # y
    <3>1. ASSUME z # Null, t.left[z] = y PROVE FALSE
      <4>1. t.parent[y] = z
        BY <1>1, <1>2, <2>1, <3>1, Family DEF Sides
      <4> QED
        BY <1>2, <4>1
    <3> QED
      BY <3>1
  <2>3. z # Null => first.left[z] = high.left[z]
    BY <1>1, <1>12, <2>1, <2>2 DEF Sides
  <2>4. first.parent[x] = z /\ high.parent[x] = z
    BY <1>1, <1>12
  <2> HIDE DEF z
  <2> QED
    BY <2>3, <2>4 DEF ChildReference
<1>16. PICK d2 : Rotated(first, u, M, d1, d2, other, x)
  <2>1. first[Opposite(other)][x] # Null
    BY <1>1, <1>5, <1>14
  <2> QED
    BY <1>1, <1>13, <1>15, <2>1, RotationKeeps DEF other
<1>17. /\ u[other][g] = x /\ u[deep][g] = y
       /\ u[other][x] = t[other][x] /\ u[deep][x] = t[other][g]
       /\ u[other][y] = t[deep][g] /\ u[deep][y] = t[deep][y]
       /\ u.parent[g] = t.parent[x] /\ u.parent[x] = g
  <2>1. Moved(first, u, M, other, x)
    BY <1>1, <1>13, <1>16, RotatedChildren
  <2>2. /\ u[other][g] = x /\ u[deep][g] = first[deep][g]
        /\ u[other][x] = first[other][x] /\ u[deep][x] = first[other][g]
        /\ \A side \in Sides : u[side][y] = IF first[side][y] = x THEN g ELSE first[side][y]
        /\ u.parent[g] = first.parent[x] /\ u.parent[x] = g
    BY <1>1, <1>2, <1>6, <1>14, <2>1 DEF Moved
  <2> QED
    BY <1>1, <1>9, <1>10, <1>12, <1>14, <2>2
<1>18. ASSUME NEW m \in M, NEW side \in Sides, m # x, m # y, m # g
       PROVE  u[side][m] = IF t[side][m] = x THEN g ELSE t[side][m]
  <2>1. Moved(first, u, M, other, x)
    BY <1>1, <1>13, <1>16, RotatedChildren
  <2>2. u[side][m] = IF first[side][m] = x THEN g ELSE first[side][m]
    BY <1>1, <1>14, <1>18, <2>1 DEF Moved
  <2>3. t[side][m] # y
    <3>1. t[side][m] = y => t.parent[y] = m
      BY <1>1, <1>2, Family
    <3> QED
      BY <1>2, <1>18, <3>1
  <2> QED
    BY <1>12, <1>18, <2>2, <2>3
<1>19. /\ Sound(u, M, d2) /\ u.returned
       /\ d2[g] = d[x] /\ d2[x] \subseteq d[x] /\ d2[y] \subseteq d[x]
       /\ \A m \in M : m # x /\ m # y /\ m # g => d2[m] = d[m] /\ u.height[m] = t.height[m]
       /\ u.height[y] = Taller(a, p)
       /\ u.height[x] = Taller(Height(first, t[other][x]), Height(first, t[other][g]))
       /\ u.height[g] = Taller(u.height[x], Height(first, y))
  BY <1>1, <1>2, <1>6, <1>12, <1>13, <1>14, <1>16 DEF Rotated
<1>20. ASSUME NEW m \in M \cup {Null}, m # x, m # y, m # g
       PROVE  Height(u, m) = Height(t, m) /\ Height(first, m) = Height(t, m)
  BY <1>1, <1>13, <1>19, <1>20 DEF Height
<1>21. u.height[y] = s + 1 /\ u.height[x] = s + 1 /\ u.height[g] = s + 2
  <2>1. Height(first, t[other][x]) = s /\ Height(first, t[other][g]) = q
    BY <1>1, <1>2, <1>9, <1>10, <1>20 DEF s, q
  <2>2. Height(first, y) = Taller(a, p)
    BY <1>1, <1>2, <1>13 DEF Height
  <2> QED
    BY <1>1, <1>4, <1>8, <1>19, <2>1, <2>2 DEF Taller
<1>22. /\ Height(u, u[other][x]) = s /\ Height(u, u[deep][x]) = q
       /\ Height(u, u[other][y]) = p /\ Height(u, u[deep][y]) = s
       /\ Height(u, u[other][g]) = s + 1 /\ Height(u, u[deep][g]) = s + 1
  <2>1. /\ Height(u, t[other][x]) = s /\ Height(u, t[other][g]) = q
        /\ Height(u, t[deep][g]) = p
    BY <1>1, <1>2, <1>9, <1>10, <1>20 DEF s, q, p
  <2>2. Height(u, t[deep][y]) = s
    BY <1>4, <1>6, <1>10, <1>20 DEF a
  <2>3. Height(u, x) = s + 1 /\ Height(u, y) = s + 1
    BY <1>1, <1>2, <1>21 DEF Height
  <2> QED
    BY <1>17, <2>1, <2>2, <2>3
<1>23. ASSUME NEW c \in {x, y, g}
       PROVE  Exact(u, c) /\ Even(u, c) /\ u.height[c] >= 0
  <2>1. c \in M
    BY <1>2, <1>6
  <2>2. Above(u, c) = Taller(Height(u, u[other][c]), Height(u, u[deep][c]))
    BY <1>1, <1>19, <2>1, HeightsAreNumbers
  <2>3. Even(u, c) <=> Height(u, u[other][c]) - Height(u, u[deep][c]) \in -1..1
    BY <1>1, <1>19, <2>1, Leaning
  <2>4. CASE c = x
    BY <1>1, <1>8, <1>21, <1>22, <2>2, <2>3, <2>4 DEF Exact, Taller
  <2>5. CASE c = y
    BY <1>1, <1>8, <1>21, <1>22, <2>2, <2>3, <2>5 DEF Exact, Taller
  <2>6. CASE c = g
    BY <1>1, <1>8, <1>21, <1>22, <2>2, <2>3, <2>6 DEF Exact, Taller
  <2> QED
    BY <2>4, <2>5, <2>6
<1>24. u.height[g] - t.height[x] \in {-1, 0, 1}
  BY <1>1, <1>21
<1>25. Settled(t, u, M, d, d2, x, {x, y, g}, g)
  BY <1>2, <1>6, <1>18, <1>19, <1>23, <1>24 DEF Settled
<1>26. Placed(t, u, x, g)
  BY <1>6, <1>17 DEF Placed
<1> QED
  BY <1>25, <1>26

\* _avltree_rebalance_nodes() rotates a node the right way round, once or twice.
LEMMA LiftSettles ==
  ASSUME NEW t, NEW M, NEW d, NEW x \in M, Near(t, M, d, x), NEW deep \in Sides,
         Height(t, t[deep][x]) = Height(t, t[Opposite(deep)][x]) + 2,
         NEW high, high = Heightened(t, x, Above(t, x)),
         NEW u, u = Lift(high, x, deep)
  PROVE  \E d2, C, top : Settled(t, u, M, d, d2, x, C, top) /\ Placed(t, u, x, top)
<1> DEFINE other == Opposite(deep)
           y     == t[deep][x]
           inner == Height(t, t[other][y]) > Height(t, t[deep][y])
           first == Rotate(high, Ref(x, deep), deep)
           ref   == ChildReference(high, x)
<1>1. Steep(t, M, d, x, deep, y, high)
  BY OneSideHigher
<1> HIDE DEF y
<1>2. /\ Sound(t, M, d) /\ Sound(high, M, d) /\ other \in Sides /\ y \in M
      /\ \A side \in Sides : high[side] = t[side]
      /\ \A m \in M \cup {Null} : m # x => Height(high, m) = Height(t, m)
      /\ t.parent[x] # y /\ y = t[deep][x] /\ y # x /\ Null \notin M
  BY <1>1 DEF Steep
<1>3. \A side \in Sides : Height(high, high[side][y]) = Height(t, t[side][y])
  <2> SUFFICES ASSUME NEW side \in Sides PROVE Height(high, t[side][y]) = Height(t, t[side][y])
    BY <1>2
  <2>1. t[side][y] \in M \cup {Null} /\ t[side][y] # x
    BY <1>2, Family
  <2> QED
    BY <1>2, <2>1
<1>4. (IF deep = "left" THEN Balance(high, y) >= 1 ELSE Balance(high, y) <= -1) <=> inner
  <2>1. /\ Height(high, high[other][y]) = Height(t, t[other][y])
        /\ Height(high, high[deep][y]) = Height(t, t[deep][y])
    BY <1>2, <1>3
  <2> QED
    BY <1>2, <2>1, Leaning
<1>5. u = IF inner THEN Rotate(first, ref, other) ELSE Rotate(high, ref, other)
  <2>1. high[deep][x] = y
    BY <1>2
  <2> HIDE DEF inner, first, ref
  <2> QED
    BY <1>4, <2>1 DEF Lift, first, ref
<1>6. CASE inner
  <2>1. Height(t, t[other][y]) > Height(t, t[deep][y])
    BY <1>6
  <2> QED
    BY <1>1, <1>5, <1>6, <2>1, LiftedTwice
<1>7. CASE ~inner
  <2>1. Height(t, t[other][y]) <= Height(t, t[deep][y])
    BY <1>2, <1>7, HeightsAreNumbers
  <2> QED
    BY <1>1, <1>5, <1>7, <2>1, LiftedOnce
<1> QED
  BY <1>6, <1>7

\* With its height put right and, where needed, the rotations, a node is settled.
LEMMA RaiseSettles ==
  ASSUME NEW t, NEW M, NEW d, NEW x \in M, Near(t, M, d, x),
         NEW u, u = Raise(t, x)
  PROVE  \E d2, C, top : Settled(t, u, M, d, d2, x, C, top) /\ Placed(t, u, x, top)
<1> DEFINE high == Heightened(t, x, Above(t, x))
           l    == Height(t, t.left[x])
           r    == Height(t, t.right[x])
<1>1. /\ Sound(t, M, d) /\ t.returned /\ Off(t, x) /\ Null \notin M
      /\ \A m \in M : t.height[m] >= 0
  <2>1. Sound(t, M, d) /\ x # Null => Off(t, x)
    BY DEF Near
  <2> QED
    BY <2>1, SoundFrom DEF Near, Sides
<1>2. /\ l \in Int /\ r \in Int /\ Above(t, x) = Taller(l, r) /\ Above(t, x) \in Int
      /\ Balance(t, x) = r - l /\ t.height[x] \in Int
  BY <1>1, HeightsAreNumbers DEF Sides
<1>3. /\ t.left[x] \in M \cup {Null} /\ t.left[x] # x
      /\ t.right[x] \in M \cup {Null} /\ t.right[x] # x
  BY <1>1, Family DEF Sides
<1>4. l - r \in -2..2 /\ Taller(l, r) - t.height[x] \in {-1, 0, 1}
  <2>1. Opposite("left") = "right" /\ "left" \in Sides /\ t["left"] = t.left /\ t["right"] = t.right
    BY DEF Opposite, Sides
  <2>2. ByTwo(t, x, "left")
    BY <1>1, <2>1, OffByOne
  <2> QED
    BY <1>2, <2>1, <2>2 DEF ByTwo
<1>5. l >= -1 /\ r >= -1
  <2>1. \A c \in M \cup {Null} : Height(t, c) >= -1
    <3> SUFFICES ASSUME NEW c \in M PROVE t.height[c] >= -1
      BY DEF Height
    <3>1. t.height[c] >= 0 /\ t.height[c] \in Int
      BY <1>1, HeightsAreNumbers DEF Sides
    <3> QED
      BY <3>1
  <2> QED
    BY <1>3, <2>1
<1>6. Sound(high, M, d) /\ OnlyHeight(t, high, M, x, Above(t, x))
  BY <1>1, <1>2, HeightSet
<1>7. high = [t EXCEPT !.height[x] = Above(t, x)]
  BY DEF Heightened
<1> HIDE DEF high
<1>8. /\ high.returned /\ high.parent = t.parent /\ high.left = t.left /\ high.right = t.right
      /\ \A side \in Sides : high[side] = t[side]
      /\ high.height[x] = Taller(l, r)
      /\ \A m \in M : m # x => high.height[m] = t.height[m]
      /\ Height(high, t.left[x]) = l /\ Height(high, t.right[x]) = r
  <2>1. high["left"] = t["left"] /\ high["right"] = t["right"]
    BY <1>6 DEF OnlyHeight, Sides
  <2> QED
    BY <1>1, <1>2, <1>3, <1>6, <2>1 DEF OnlyHeight
<1>9. /\ Above(high, x) = Taller(l, r) /\ Balance(high, x) = r - l
  BY <1>6, <1>8, HeightsAreNumbers DEF Sides
<1>10. u = CASE r - l = -2 -> Lift(high, x, "left")
             [] r - l = 2  -> Lift(high, x, "right")
             [] OTHER      -> high
  BY <1>7, <1>9 DEF Raise
<1>11. Opposite("left") = "right" /\ Opposite("right") = "left" /\ t["left"] = t.left /\ t["right"] = t.right
  BY DEF Opposite
<1>12. CASE r - l = -2
  <2>1. u = Lift(high, x, "left")
    BY <1>2, <1>10, <1>12
  <2>2. Height(t, t["left"][x]) = Height(t, t[Opposite("left")][x]) + 2
    BY <1>2, <1>11, <1>12
  <2>3. "left" \in Sides
    BY DEF Sides
  <2> QED
    BY <2>1, <2>2, <2>3, LiftSettles DEF high
<1>13. CASE r - l = 2
  <2>1. u = Lift(high, x, "right")
    BY <1>2, <1>10, <1>13
  <2>2. Height(t, t["right"][x]) = Height(t, t[Opposite("right")][x]) + 2
    BY <1>2, <1>11, <1>13
  <2>3. "right" \in Sides
    BY DEF Sides
  <2> QED
    BY <2>1, <2>2, <2>3, LiftSettles DEF high
<1>14. CASE r - l # -2 /\ r - l # 2
  <2>1. u = high
    BY <1>2, <1>10, <1>14
  <2>2. x \in d[x]
    BY <1>1, Family DEF Sides
  <2>3. Exact(high, x) /\ Even(high, x)
    BY <1>2, <1>4, <1>8, <1>9, <1>14 DEF Exact, Even
  <2>4. high.height[x] >= 0 /\ high.height[x] - t.height[x] \in {-1, 0, 1}
    BY <1>2, <1>4, <1>5, <1>8 DEF Taller
  <2>5. Settled(t, high, M, d, d, x, {x}, x)
    BY <1>6, <1>8, <2>2, <2>3, <2>4 DEF Settled
  <2>6. Placed(t, high, x, x)
    BY <1>8 DEF Placed
  <2> QED
    BY <2>1, <2>5, <2>6
<1> QED
  BY <1>12, <1>13, <1>14

-----------------------------------------------------------------------------
(* The walk to the root *)

\* The walk has come to the node that may be out of balance, or is below it
\* because it has been rotated down; k turns at most are left.
HeadAt(s, M, d, x) ==
    /\ s \in [tree : Trees, node : Pointers]
    /\ Near(s.tree, M, d, x)
    /\ s.node # x => s.node \in M /\ s.tree.parent[s.node] = x

Turns(s, M, d, x) == 2 * Cardinality(Over(d, M, x)) + (IF s.node = x THEN 0 ELSE 1)

Headed(s, M, k) == \E d, x : HeadAt(s, M, d, x) /\ Turns(s, M, d, x) <= k

LEMMA OverSize ==
  ASSUME NEW M, NEW d, NEW t, Sound(t, M, d), NEW x
  PROVE  /\ IsFiniteSet(Over(d, M, x)) /\ Cardinality(Over(d, M, x)) \in Nat
         /\ Cardinality(Over(d, M, x)) <= Cardinality(Nodes)
         /\ x \in M => x \in Over(d, M, x) /\ Cardinality(Over(d, M, x)) >= 1
<1>1. Over(d, M, x) \subseteq Nodes
  BY SoundFrom DEF Over, Sides
<1>2. IsFiniteSet(Nodes)
  BY TreeAssumption
<1> DEFINE O == Over(d, M, x)
<1>3. /\ IsFiniteSet(O) /\ Cardinality(O) \in Nat
      /\ Cardinality(O) <= Cardinality(Nodes)
  BY <1>1, <1>2, FS_Subset, FS_CardinalityType
<1>4. x \in M => x \in O
  BY Family DEF Over, Sides
<1> HIDE DEF O
<1>5. x \in O => Cardinality(O) # 0
  BY <1>3, FS_EmptySet
<1> QED
  BY <1>3, <1>4, <1>5 DEF O

\* A node that is in order is left as it is.
LEMMA RaiseKeeps ==
  ASSUME NEW t, NEW M, NEW d, Sound(t, M, d), NEW n \in M, Exact(t, n), Even(t, n)
  PROVE  Raise(t, n) = t
<1> DEFINE high == [t EXCEPT !.height[n] = Above(t, n)]
<1>1. t \in Trees /\ n \in Nodes
  BY SoundFrom DEF Sides
<1>2. high = t
  BY <1>1 DEF Exact, Trees
<1>3. Balance(high, n) # 2 /\ Balance(high, n) # -2
  BY <1>2 DEF Even
<1> HIDE DEF high
<1>4. Raise(t, n) = CASE Balance(high, n) = -2 -> Lift(high, n, "left")
                      [] Balance(high, n) = 2  -> Lift(high, n, "right")
                      [] OTHER                 -> high
  BY DEF Raise, high
<1> QED
  BY <1>2, <1>3, <1>4

\* Each turn of the loop leaves fewer.
LEMMA ClimbGoesOn ==
  ASSUME NEW s, NEW M, NEW k \in Nat, Headed(s, M, k)
  PROVE  /\ IF k = 0 THEN s.node = Null ELSE Headed(Climb(s), M, k - 1)
         /\ s.node = Null => \E d : Near(s.tree, M, d, Null)
<1> DEFINE t == s.tree
<1>1. PICK d, x : HeadAt(s, M, d, x) /\ Turns(s, M, d, x) <= k
  BY DEF Headed
<1>2. /\ Sound(t, M, d) /\ t.returned /\ x \in M \cup {Null} /\ Near(t, M, d, x)
      /\ t \in Trees /\ s.node \in Pointers
      /\ s.node # x => s.node \in M /\ t.parent[s.node] = x
      /\ s = [tree |-> t, node |-> s.node]
  BY <1>1 DEF HeadAt, Near
<1>3. Null \notin M /\ M \subseteq Nodes
  BY <1>2, SoundFrom DEF Sides
<1>4. /\ IsFiniteSet(Over(d, M, x)) /\ Cardinality(Over(d, M, x)) \in Nat
      /\ x \in M => x \in Over(d, M, x) /\ Cardinality(Over(d, M, x)) >= 1
  BY <1>2, OverSize
<1> HIDE DEF t
<1>5. CASE s.node = Null
  <2>1. x = Null
    BY <1>2, <1>3, <1>5
  <2>2. Climb(s) = s
    BY <1>5 DEF Climb
  <2>3. Over(d, M, Null) = {}
    <3>1. \A m \in M : d[m] \subseteq M
      BY <1>2, Family DEF Sides
    <3> QED
      BY <1>3, <3>1 DEF Over
  <2>4. Turns(s, M, d, x) = 0
    BY <1>5, <2>1, <2>3, FS_EmptySet DEF Turns
  <2>5. k # 0 => Headed(s, M, k - 1)
    <3>1. k # 0 => 0 <= k - 1
      OBVIOUS
    <3> QED
      BY <1>1, <2>4, <3>1 DEF Headed
  <2> QED
    BY <1>2, <1>5, <2>1, <2>2, <2>5 DEF t
<1>6. CASE s.node # Null /\ s.node = x
  <2> DEFINE u == Raise(t, x)
             q == t.parent[x]
  <2>1. x \in M
    BY <1>2, <1>6
  <2>2. PICK d2, C, top : Settled(t, u, M, d, d2, x, C, top) /\ Placed(t, u, x, top)
    BY <1>2, <2>1, RaiseSettles
  <2>3. Climb(s) = [tree |-> u, node |-> u.parent[x]]
    BY <1>6 DEF Climb, t
  <2> HIDE DEF u
  <2>4. /\ Near(u, M, d2, q)
        /\ Over(d2, M, q) \subseteq Over(d, M, x) \ {x}
    BY <1>2, <2>1, <2>2, SettledNear
  <2>5. Sound(u, M, d2) /\ u \in Trees
    <3>1. Sound(u, M, d2)
      BY <2>4 DEF Near
    <3> QED
      BY <3>1 DEF Sound
  <2>6. top \in M
    BY <1>2, <2>1, <2>2, Family DEF Settled, Sides
  <2>7. u.parent[x] \in Pointers
    <3>1. u.parent \in [Nodes -> Pointers] /\ x \in Nodes
      BY <1>3, <2>1, <2>5 DEF Trees
    <3> QED
      BY <3>1
  <2> DEFINE s2 == Climb(s)
  <2>8. s2 \in [tree : Trees, node : Pointers] /\ s2.tree = u /\ s2.node = u.parent[x]
    BY <2>3, <2>5, <2>7
  <2> HIDE DEF s2, q
  <2>9. s2.node # q => s2.node \in M /\ u.parent[s2.node] = q
    BY <2>2, <2>6, <2>8 DEF Placed, q
  <2>10. HeadAt(s2, M, d2, q)
    BY <2>4, <2>8, <2>9 DEF HeadAt
  <2>11. Cardinality(Over(d2, M, q)) <= Cardinality(Over(d, M, x)) - 1
    <3> DEFINE O == Over(d, M, x)
               O2 == Over(d2, M, q)
    <3>1. IsFiniteSet(O) /\ x \in O /\ O2 \subseteq O \ {x}
      BY <1>4, <2>1, <2>4
    <3> HIDE DEF O, O2
    <3>2. Cardinality(O \ {x}) = Cardinality(O) - 1 /\ IsFiniteSet(O \ {x})
      BY <3>1, FS_RemoveElement
    <3> QED
      BY <3>1, <3>2, FS_Subset DEF O, O2
  <2>12. Cardinality(Over(d2, M, q)) \in Nat
    BY <2>5, OverSize
  <2>13. Turns(s, M, d, x) = 2 * Cardinality(Over(d, M, x))
    BY <1>4, <1>6 DEF Turns
  <2>14. Turns(s2, M, d2, q) <= 2 * Cardinality(Over(d2, M, q)) + 1
    BY <2>12 DEF Turns
  <2>15. Turns(s2, M, d2, q) \in Int
    BY <2>12 DEF Turns
  <2>16. k >= 2 /\ Turns(s2, M, d2, q) <= k - 1
    BY <1>1, <1>4, <2>1, <2>11, <2>12, <2>13, <2>14, <2>15
  <2>17. Headed(s2, M, k - 1)
    BY <2>10, <2>16 DEF Headed
  <2> QED
    BY <1>6, <2>16, <2>17 DEF s2
<1>7. CASE s.node # Null /\ s.node # x
  <2>1. s.node \in M /\ t.parent[s.node] = x
    BY <1>2, <1>7
  <2>2. Exact(t, s.node) /\ Even(t, s.node)
    BY <1>2, <1>7, <2>1 DEF Near
  <2>3. Raise(t, s.node) = t
    BY <1>2, <2>1, <2>2, RaiseKeeps
  <2>4. Climb(s) = [tree |-> t, node |-> x]
    BY <1>7, <2>1, <2>3 DEF Climb, t
  <2> DEFINE s2 == Climb(s)
  <2>5. s2 \in [tree : Trees, node : Pointers] /\ s2.tree = t /\ s2.node = x
    BY <1>2, <1>3, <2>4 DEF Pointers
  <2> HIDE DEF s2
  <2>6. HeadAt(s2, M, d, x)
    BY <1>2, <2>5 DEF HeadAt
  <2>7. Turns(s, M, d, x) = 2 * Cardinality(Over(d, M, x)) + 1
    BY <1>4, <1>7 DEF Turns
  <2>8. Turns(s2, M, d, x) = 2 * Cardinality(Over(d, M, x))
    BY <1>4, <2>5 DEF Turns
  <2>9. k >= 1 /\ Turns(s2, M, d, x) <= k - 1
    BY <1>1, <1>4, <2>7, <2>8
  <2> QED
    BY <1>7, <2>6, <2>9 DEF s2, Headed
<1> QED
  BY <1>5, <1>6, <1>7

\* The walk is a function.
Walks(t, n, walk) ==
    walk = [i \in Nat |-> IF i = 0 THEN [tree |-> t, node |-> n] ELSE Climb(walk[i - 1])]

LEMMA WalkExists ==
  ASSUME NEW t, NEW M, NEW d, NEW x, Near(t, M, d, x)
  PROVE  \E walk : Walks(t, x, walk)
<1> DEFINE s0   == [tree |-> t, node |-> x]
           X    == {s \in [tree : Trees, node : Pointers] : \E k \in Nat : Headed(s, M, k)}
           step == [s \in X |-> Climb(s)]
<1>1. s0 \in X /\ Headed(s0, M, MaxWalk) /\ MaxWalk \in Nat
  <2>1. Sound(t, M, d) /\ x \in M \cup {Null}
    BY DEF Near
  <2>2. t \in Trees /\ x \in Pointers
    BY <2>1, SoundFrom DEF Sides, Pointers
  <2>3. HeadAt(s0, M, d, x)
    BY <2>2 DEF HeadAt
  <2>4. /\ Cardinality(Over(d, M, x)) \in Nat
        /\ Cardinality(Over(d, M, x)) <= Cardinality(Nodes)
    BY <2>1, OverSize
  <2>5. Cardinality(Nodes) \in Nat
    BY TreeAssumption, FS_CardinalityType
  <2>6. Turns(s0, M, d, x) <= MaxWalk /\ MaxWalk \in Nat
    BY <2>4, <2>5 DEF Turns, MaxWalk
  <2>7. Headed(s0, M, MaxWalk)
    BY <2>3, <2>6 DEF Headed
  <2> QED
    BY <2>2, <2>6, <2>7
<1>2. step \in SelfMaps(X)
  <2> SUFFICES ASSUME NEW s \in X PROVE Climb(s) \in X
    BY DEF SelfMaps
  <2>1. PICK k \in Nat : Headed(s, M, k)
    OBVIOUS
  <2>2. Headed(s, M, k + 1)
    <3>1. PICK e, y : HeadAt(s, M, e, y) /\ Turns(s, M, e, y) <= k
      BY <2>1 DEF Headed
    <3>2. Turns(s, M, e, y) \in Int
      <4>1. Sound(s.tree, M, e)
        BY <3>1 DEF HeadAt, Near
      <4> QED
        BY <4>1, OverSize DEF Turns
    <3>3. Turns(s, M, e, y) <= k + 1
      BY <3>1, <3>2
    <3> QED
      BY <3>1, <3>3 DEF Headed
  <2>3. Headed(Climb(s), M, k)
    <3>1. k + 1 \in Nat /\ k + 1 # 0 /\ (k + 1) - 1 = k
      OBVIOUS
    <3> QED
      BY <2>2, <3>1, ClimbGoesOn
  <2>4. Climb(s) \in [tree : Trees, node : Pointers]
    BY <2>3 DEF Headed, HeadAt
  <2>5. \E j \in Nat : Headed(Climb(s), M, j)
    BY <2>3
  <2> QED
    BY <2>4, <2>5
<1> HIDE DEF s0, X
<1>3. PICK f : f \in [Nat -> X] /\ f[0] = s0 /\ \A n \in Nat : f[n + 1] = step[f[n]]
  <2> HIDE DEF step
  <2>1. \E f : Iterates(X, s0, step, f)
    BY <1>1, <1>2, NumberRecursion
  <2> QED
    BY <2>1 DEF Iterates
<1>4. \A i \in Nat : f[i] = IF i = 0 THEN s0 ELSE Climb(f[i - 1])
  <2> SUFFICES ASSUME NEW i \in Nat, i # 0 PROVE f[i] = Climb(f[i - 1])
    BY <1>3
  <2>1. i - 1 \in Nat /\ (i - 1) + 1 = i
    OBVIOUS
  <2>2. f[(i - 1) + 1] = step[f[i - 1]]
    BY <1>3, <2>1
  <2> QED
    BY <1>3, <2>1, <2>2
<1>5. f = [i \in Nat |-> IF i = 0 THEN s0 ELSE Climb(f[i - 1])]
  BY <1>3, <1>4
<1> QED
  BY <1>5 DEF Walks, s0

\* Rebalancing from the node that may be out of balance makes the tree balanced,
\* and gets to the root.
LEMMA RebalanceMends ==
  ASSUME NEW t, NEW M, NEW d, NEW x, Near(t, M, d, x)
  PROVE  \E d2 : Near(Rebalance(t, x), M, d2, Null)
<1> DEFINE walk == CHOOSE w : w = [i \in Nat |-> IF i = 0 THEN [tree |-> t, node |-> x]
                                                         ELSE Climb(w[i - 1])]
           end  == walk[MaxWalk]
<1>1. Rebalance(t, x) = IF end.node = Null THEN end.tree
                        ELSE [end.tree EXCEPT !.returned = FALSE]
  BY DEF Rebalance
<1>2. Walks(t, x, walk)
  BY WalkExists DEF Walks
<1> HIDE DEF walk
<1>3. walk[0] = [tree |-> t, node |-> x] /\ \A i \in Nat : walk[i + 1] = Climb(walk[i])
  <2>1. walk = [i \in Nat |-> IF i = 0 THEN [tree |-> t, node |-> x] ELSE Climb(walk[i - 1])]
    BY <1>2 DEF Walks
  <2>2. walk[0] = [tree |-> t, node |-> x]
    BY <2>1
  <2>3. ASSUME NEW i \in Nat PROVE walk[i + 1] = Climb(walk[i])
    <3>1. i + 1 \in Nat /\ i + 1 # 0 /\ (i + 1) - 1 = i
      OBVIOUS
    <3>2. walk[i + 1] = IF i + 1 = 0 THEN [tree |-> t, node |-> x] ELSE Climb(walk[(i + 1) - 1])
      BY <2>1, <3>1
    <3> QED
      BY <3>1, <3>2
  <2> QED
    BY <2>2, <2>3
<1>4. MaxWalk \in Nat /\ Headed(walk[0], M, MaxWalk)
  <2>1. Sound(t, M, d) /\ x \in M \cup {Null}
    BY DEF Near
  <2>2. t \in Trees /\ x \in Pointers
    BY <2>1, SoundFrom DEF Sides, Pointers
  <2>3. HeadAt(walk[0], M, d, x)
    BY <1>3, <2>2 DEF HeadAt
  <2>4. /\ Cardinality(Over(d, M, x)) \in Nat
        /\ Cardinality(Over(d, M, x)) <= Cardinality(Nodes)
    BY <2>1, OverSize
  <2>5. Cardinality(Nodes) \in Nat
    BY TreeAssumption, FS_CardinalityType
  <2>6. Turns(walk[0], M, d, x) <= MaxWalk /\ MaxWalk \in Nat
    BY <1>3, <2>4, <2>5 DEF Turns, MaxWalk
  <2> QED
    BY <2>3, <2>6 DEF Headed
<1> DEFINE S == {i \in Nat : i <= MaxWalk => Headed(walk[i], M, MaxWalk - i)}
<1>5. 0 \in S
  BY <1>4, MaxWalk - 0 = MaxWalk
<1>6. ASSUME NEW i \in Nat, i \in S PROVE i + 1 \in S
  <2> SUFFICES ASSUME i + 1 <= MaxWalk PROVE Headed(walk[i + 1], M, MaxWalk - (i + 1))
    OBVIOUS
  <2>1. /\ MaxWalk - i \in Nat /\ MaxWalk - i # 0 /\ i <= MaxWalk
        /\ (MaxWalk - i) - 1 = MaxWalk - (i + 1)
    BY <1>4
  <2>2. Headed(walk[i], M, MaxWalk - i)
    BY <1>6, <2>1
  <2> DEFINE k == MaxWalk - i
  <2>3. k \in Nat /\ k # 0 /\ Headed(walk[i], M, k)
    BY <2>1, <2>2
  <2> HIDE DEF k
  <2>4. Headed(Climb(walk[i]), M, k - 1)
    BY <2>3, ClimbGoesOn
  <2> QED
    BY <1>3, <2>1, <2>4 DEF k
<1> HIDE DEF S
<1>7. MaxWalk \in S
  BY <1>4, <1>5, <1>6, NumberInduction
<1>8. Headed(end, M, 0)
  <2>1. MaxWalk <= MaxWalk /\ MaxWalk - MaxWalk = 0
    BY <1>4
  <2> QED
    BY <1>7, <2>1 DEF S
<1>9. end.node = Null /\ \E d2 : Near(end.tree, M, d2, Null)
  <2> HIDE DEF end
  <2>1. 0 \in Nat
    OBVIOUS
  <2> QED
    BY <1>8, <2>1, ClimbGoesOn
<1> QED
  BY <1>1, <1>9

-----------------------------------------------------------------------------
(* Finding a key *)

\* The recursive function of Find().
Finds(t, k, find) ==
    find = [ref \in Refs |->
              LET n == Get(t, ref)
              IN  IF n = Null \/ KeyOf[n] = k THEN ref
                  ELSE find[Ref(n, IF k < KeyOf[n] THEN "left" ELSE "right")]]

LEMMA PointersOf ==
  ASSUME NEW t \in Trees
  PROVE  /\ \A ref \in Refs : Get(t, ref) \in Pointers
         /\ \A n \in Nodes, side \in Sides :
              /\ Ref(n, side) \in Refs /\ Ref(n, side) # RootRef /\ Get(t, Ref(n, side)) = t[side][n]
              /\ Ref(n, side).node = n /\ Ref(n, side).side = side
         /\ RootRef \in Refs /\ Get(t, RootRef) = t.root
         /\ \A ref \in Refs : ref # RootRef =>
              /\ ref.node \in Nodes /\ ref.side \in Sides /\ ref = Ref(ref.node, ref.side)
              /\ Get(t, ref) = t[ref.side][ref.node]
<1>1. \A n \in Nodes, side \in Sides :
              /\ Ref(n, side) \in Refs /\ Ref(n, side) # RootRef /\ Get(t, Ref(n, side)) = t[side][n]
              /\ Ref(n, side).node = n /\ Ref(n, side).side = side
  BY TreeAssumption DEF Ref, Refs, RootRef, Get
<1>2. RootRef \in Refs /\ Get(t, RootRef) = t.root
  BY DEF Refs, Get
<1>3. ASSUME NEW ref \in Refs, ref # RootRef
      PROVE  /\ ref.node \in Nodes /\ ref.side \in Sides /\ ref = Ref(ref.node, ref.side)
             /\ Get(t, ref) = t[ref.side][ref.node]
  <2>1. ref \in [node : Nodes, side : Sides]
    BY <1>3 DEF Refs
  <2> QED
    BY <1>3, <2>1 DEF Ref, Get
<1>4. \A n \in Nodes, side \in Sides : t[side][n] \in Pointers
  BY DEF Trees, Sides
<1>5. t.root \in Pointers
  BY DEF Trees
<1>6. \A ref \in Refs : Get(t, ref) \in Pointers
  BY <1>2, <1>3, <1>4, <1>5
<1> QED
  BY <1>1, <1>2, <1>3, <1>6

LEMMA FindExists ==
  ASSUME NEW t \in Trees, NEW k
  PROVE  \E find : Finds(t, k, find)
<1> DEFINE stops == {ref \in Refs : Get(t, ref) = Null \/ KeyOf[Get(t, ref)] = k}
           next(ref) == Ref(Get(t, ref), IF k < KeyOf[Get(t, ref)] THEN "left" ELSE "right")
           ends  == [ref \in Refs |-> ref]
           succ  == [ref \in Refs |-> IF ref \in stops THEN ref ELSE next(ref)]
<1>1. ASSUME NEW ref \in Refs, ref \notin stops PROVE next(ref) \in Refs
  <2>1. Get(t, ref) \in Nodes
    BY <1>1, PointersOf DEF Pointers
  <2> QED
    BY <2>1 DEF Ref, Refs, Sides
<1>2. Follows(Refs, Refs, ends, succ)
  BY <1>1 DEF Follows, SelfMaps
<1> HIDE DEF ends, succ, stops
<1>3. PICK g : Arrives(Refs, Refs, stops, ends, succ, g)
  BY <1>2, TailRecursion
<1>4. g \in [Refs -> Refs] /\ \A ref \in Refs : g[ref] = IF ref \in stops THEN ref ELSE g[next(ref)]
  BY <1>3 DEF Arrives, ends, succ
<1>5. g = [ref \in Refs |-> IF Get(t, ref) = Null \/ KeyOf[Get(t, ref)] = k THEN ref
                            ELSE g[next(ref)]]
  BY <1>4 DEF stops
<1> QED
  BY <1>5 DEF Finds

\* A node with key k belongs to "ref", seen from every node above.
Fits(t, M, d, ref, k) ==
    ref # RootRef =>
      /\ ref.node \in M /\ ref.side \in Sides
      /\ IF ref.side = "left" THEN k < KeyOf[ref.node] ELSE k > KeyOf[ref.node]
      /\ \A m \in M : /\ ref.node \in Below(d, t.left[m]) => k < KeyOf[m]
                      /\ ref.node \in Below(d, t.right[m]) => k > KeyOf[m]

\* The way of a key to its place.
OnTheWay(t, M, d, ref, k) ==
    /\ ref \in Refs /\ Fits(t, M, d, ref, k)
    /\ Get(t, ref) \in M \cup {Null}
    /\ \A m \in M : KeyOf[m] = k => m \in Below(d, Get(t, ref))

LEMMA FindStep ==
  ASSUME NEW t, NEW M, NEW d, Sound(t, M, d), NEW k \in Int, NEW ref, OnTheWay(t, M, d, ref, k),
         NEW n, n = Get(t, ref), n # Null, KeyOf[n] # k,
         NEW next, next = Ref(n, IF k < KeyOf[n] THEN "left" ELSE "right")
  PROVE  /\ OnTheWay(t, M, d, next, k) /\ n \in M
         /\ Below(d, Get(t, next)) \subseteq d[n] /\ n \notin Below(d, Get(t, next)) /\ n \in d[n]
<1> DEFINE side == IF k < KeyOf[n] THEN "left" ELSE "right"
<1>1. /\ n \in M /\ n \in Nodes /\ Null \notin M /\ M \subseteq Nodes /\ t \in Trees /\ side \in Sides
      /\ \A m \in M : KeyOf[m] \in Int
  <2>1. /\ Null \notin M /\ M \subseteq Nodes /\ t \in Trees
    BY SoundFrom DEF Sides
  <2>2. n \in M /\ side \in Sides
    BY DEF OnTheWay, Sides
  <2> QED
    BY <2>1, <2>2, TreeAssumption
<1>2. /\ IsTree(t.left, t.right, KeyOf, t.parent, t.root, M, d)
      /\ Ordered(t.left, t.right, KeyOf, M, d)
  BY DEF Sound, IsTree
<1>3. /\ next \in Refs /\ next # RootRef /\ next.node = n /\ next.side = side
      /\ Get(t, next) = t[side][n]
  BY <1>1, PointersOf
<1>4. t[side][n] \in M \cup {Null} /\ t["left"] = t.left /\ t["right"] = t.right
  BY <1>1, Family
<1>5. /\ d[n] = {n} \cup Below(d, t.left[n]) \cup Below(d, t.right[n])
      /\ \A m \in Below(d, t.left[n]) : m \in M /\ KeyOf[m] < KeyOf[n]
      /\ \A m \in Below(d, t.right[n]) : m \in M /\ KeyOf[m] > KeyOf[n]
      /\ n \notin Below(d, t.left[n]) /\ n \notin Below(d, t.right[n]) /\ n \in d[n]
  <2>1. d[n] \subseteq M /\ n \notin Below(d, t.left[n]) /\ n \notin Below(d, t.right[n]) /\ n \in d[n]
    BY <1>1, <1>2, SidesApart
  <2> QED
    BY <1>1, <1>2, <2>1 DEF Ordered
<1>6. Below(d, t[side][n]) = IF k < KeyOf[n] THEN Below(d, t.left[n]) ELSE Below(d, t.right[n])
  BY <1>4
<1>7. ASSUME NEW m \in M, KeyOf[m] = k PROVE m \in Below(d, t[side][n])
  <2>1. m \in d[n] /\ m # n
    BY <1>7, <1>1 DEF OnTheWay, Below
  <2>2. m \in Below(d, t.left[n]) \/ m \in Below(d, t.right[n])
    BY <1>5, <2>1
  <2>3. KeyOf[m] \in Int /\ KeyOf[n] \in Int
    BY <1>1
  <2> QED
    BY <1>5, <1>6, <1>7, <2>2, <2>3
<1>8. ASSUME NEW m \in M, NEW c \in M, n \in d[c], t.left[m] = c \/ t.right[m] = c
      PROVE  /\ t.left[m] = c => k < KeyOf[m]
             /\ t.right[m] = c => k > KeyOf[m]
  <2>1. t.parent[c] = m /\ c # t.root
    BY <1>2, <1>8, ChildOf, <1>1
  <2>2. ASSUME ref = RootRef PROVE FALSE
    <3>1. n = t.root
      BY <1>1, <2>2, PointersOf
    <3>2. c \in d[n]
      BY <1>1, <1>2, <3>1, RootAbove
    <3> QED
      BY <1>1, <1>2, <1>8, <2>1, <3>1, <3>2, BelowOnce
  <2> DEFINE p == ref.node
  <2>3. /\ p \in M /\ ref.side \in Sides
        /\ IF ref.side = "left" THEN k < KeyOf[p] ELSE k > KeyOf[p]
        /\ \A j \in M : /\ p \in Below(d, t.left[j]) => k < KeyOf[j]
                        /\ p \in Below(d, t.right[j]) => k > KeyOf[j]
    BY <2>2 DEF OnTheWay, Fits
  <2>4. n = t[ref.side][p] /\ t.parent[n] = p
    <3>1. n = t[ref.side][p]
      BY <1>1, <2>2, PointersOf DEF OnTheWay
    <3> QED
      BY <1>1, <2>3, <3>1, Family
  <2>5. CASE n = c
    <3>1. p = m
      BY <2>1, <2>4, <2>5
    <3>2. t.left[m] # t.right[m]
      <4>1. t.left[m] # Null => t.left[m] # t.right[m]
        BY <1>2, SidesApart
      <4>2. t.left[m] = Null => t.right[m] # Null
        BY <1>1, <1>8
      <4> QED
        BY <4>1, <4>2
    <3>3. CASE ref.side = "left"
      BY <1>4, <2>3, <2>4, <2>5, <3>1, <3>2, <3>3
    <3>4. CASE ref.side = "right"
      BY <1>4, <2>3, <2>4, <2>5, <3>1, <3>2, <3>4
    <3> QED
      BY <2>3, <3>3, <3>4 DEF Sides
  <2>6. CASE n # c
    <3>1. p \in d[c]
      BY <1>1, <1>2, <1>8, <2>4, <2>6, ParentBelow
    <3> QED
      BY <1>1, <2>3, <3>1 DEF Below
  <2> QED
    BY <2>5, <2>6
<1>9. ASSUME NEW m \in M
      PROVE  /\ n \in Below(d, t.left[m]) => k < KeyOf[m]
             /\ n \in Below(d, t.right[m]) => k > KeyOf[m]
  <2>1. t.left[m] \in M \cup {Null} /\ t.right[m] \in M \cup {Null}
    BY <1>2 DEF Ordered
  <2> QED
    BY <1>8, <2>1 DEF Below
<1>10. IF side = "left" THEN k < KeyOf[n] ELSE k > KeyOf[n]
  BY <1>1
<1>11. OnTheWay(t, M, d, next, k)
  BY <1>1, <1>3, <1>4, <1>7, <1>9, <1>10 DEF OnTheWay, Fits
<1> QED
  BY <1>1, <1>3, <1>5, <1>6, <1>11

\* What Find() returns.
Found(t, M, d, ref, k) ==
    /\ OnTheWay(t, M, d, ref, k)
    /\ Get(t, ref) # Null => KeyOf[Get(t, ref)] = k

LEMMA FindPlace ==
  ASSUME NEW t, NEW M, NEW d, Sound(t, M, d), NEW k \in Int
  PROVE  Found(t, M, d, Find(t, k), k)
<1> DEFINE find == CHOOSE f : f = [ref \in Refs |->
              LET n == Get(t, ref)
              IN  IF n = Null \/ KeyOf[n] = k THEN ref
                  ELSE f[Ref(n, IF k < KeyOf[n] THEN "left" ELSE "right")]]
<1>1. Find(t, k) = find[RootRef]
  BY DEF Find
<1>2. t \in Trees /\ M \subseteq Nodes /\ Null \notin M
  BY SoundFrom DEF Sides
<1>3. Finds(t, k, find)
  BY <1>2, FindExists DEF Finds
<1> HIDE DEF find
<1>4. \A ref \in Refs : LET n == Get(t, ref)
                        IN find[ref] = IF n = Null \/ KeyOf[n] = k THEN ref
                              ELSE find[Ref(n, IF k < KeyOf[n] THEN "left" ELSE "right")]
  <2>1. find = [ref \in Refs |->
              LET n == Get(t, ref)
              IN  IF n = Null \/ KeyOf[n] = k THEN ref
                  ELSE find[Ref(n, IF k < KeyOf[n] THEN "left" ELSE "right")]]
    BY <1>3 DEF Finds
  <2> QED
    BY <2>1, Zenon
<1>5. OnTheWay(t, M, d, RootRef, k)
  <2>1. RootRef \in Refs /\ Get(t, RootRef) = t.root
    BY <1>2, PointersOf
  <2>2. Rooted(t.root, M, d)
    BY DEF Sound, IsTree
  <2> QED
    BY <2>1, <2>2 DEF OnTheWay, Fits, Rooted
<1> DEFINE bad == {ref \in Refs : OnTheWay(t, M, d, ref, k) /\ ~Found(t, M, d, find[ref], k)}
           U   == {Below(d, Get(t, ref)) : ref \in bad}
<1>6. IsFiniteSet(M)
  BY <1>2, TreeAssumption, FS_Subset
<1>7. U \in SUBSET SUBSET M
  <2> SUFFICES ASSUME NEW ref \in bad PROVE Below(d, Get(t, ref)) \subseteq M
    OBVIOUS
  <2>1. Get(t, ref) \in M \cup {Null}
    BY DEF OnTheWay
  <2> QED
    BY <2>1, Family DEF Below, Sides
<1>8. U = {}
  <2> SUFFICES ASSUME U # {} PROVE FALSE
    OBVIOUS
  <2> HIDE DEF U
  <2>1. PICK s \in U : \A v \in U : v \subseteq s => v = s
    BY <1>6, <1>7, SmallestSet
  <2>2. PICK ref \in bad : s = Below(d, Get(t, ref))
    BY <2>1 DEF U
  <2> DEFINE n == Get(t, ref)
             next == Ref(n, IF k < KeyOf[n] THEN "left" ELSE "right")
  <2>3. ref \in Refs /\ OnTheWay(t, M, d, ref, k) /\ ~Found(t, M, d, find[ref], k)
    OBVIOUS
  <2>4. find[ref] = IF n = Null \/ KeyOf[n] = k THEN ref ELSE find[next]
    BY <1>4, <2>3
  <2> HIDE DEF n
  <2>5. n # Null /\ KeyOf[n] # k
    BY <2>3, <2>4 DEF Found, n
  <2>6. /\ OnTheWay(t, M, d, next, k) /\ n \in M
        /\ Below(d, Get(t, next)) \subseteq d[n] /\ n \notin Below(d, Get(t, next)) /\ n \in d[n]
    BY <2>3, <2>5, FindStep DEF n
  <2> HIDE DEF next
  <2>7. s = d[n]
    BY <2>2, <2>5 DEF Below, n
  <2>8. next \notin bad
    BY <2>1, <2>6, <2>7 DEF U
  <2>9. next \in Refs
    BY <2>6 DEF OnTheWay
  <2> QED
    BY <2>3, <2>4, <2>5, <2>6, <2>8, <2>9
<1> QED
  <2>1. RootRef \notin bad
    BY <1>8
  <2> QED
    BY <1>1, <1>5, <2>1 DEF OnTheWay

\* avltree_retrieve() returns the node of the tree with the key.
LEMMA RetrieveFinds ==
  ASSUME NEW t, NEW M, NEW d, Sound(t, M, d), NEW k \in Int
  PROVE  LET found == Retrieve(t, k)
         IN  /\ found # Null => found \in M /\ KeyOf[found] = k
             /\ \A m \in M : KeyOf[m] = k => found = m
<1> DEFINE found == Retrieve(t, k)
<1>1. Found(t, M, d, Find(t, k), k) /\ found = Get(t, Find(t, k))
  BY FindPlace DEF Retrieve
<1> HIDE DEF found
<1>2. found # Null => found \in M /\ KeyOf[found] = k
  BY <1>1 DEF Found, OnTheWay
<1>3. ASSUME NEW m \in M, KeyOf[m] = k PROVE found = m
  <2>1. m \in Below(d, found)
    BY <1>1, <1>3 DEF Found, OnTheWay
  <2>2. found # Null /\ m \in d[found]
    BY <2>1 DEF Below
  <2>3. Ordered(t.left, t.right, KeyOf, M, d)
    BY DEF Sound, IsTree
  <2>4. /\ d[found] = {found} \cup Below(d, t.left[found]) \cup Below(d, t.right[found])
        /\ \A j \in Below(d, t.left[found]) : KeyOf[j] < KeyOf[found]
        /\ \A j \in Below(d, t.right[found]) : KeyOf[j] > KeyOf[found]
    BY <1>2, <2>2, <2>3 DEF Ordered
  <2> QED
    BY <1>2, <1>3, <2>2, <2>4
<1> QED
  BY <1>2, <1>3 DEF found

-----------------------------------------------------------------------------
(* A new leaf *)

\* The node n has become the child A of p.
Grown(A, B, P, A2, B2, P2, M, n, p) ==
    /\ \A m \in M : /\ A2[m] = IF m = p THEN n ELSE A[m]
                    /\ B2[m] = B[m] /\ P2[m] = P[m]
    /\ A2[n] = Null /\ B2[n] = Null /\ P2[n] = p

\* Its key is where p is, seen from every node above.
Belongs(A, B, K, M, d, n, p) ==
    /\ K[n] < K[p]
    /\ \A m \in M : /\ p \in Below(d, A[m]) => K[n] < K[m]
                    /\ p \in Below(d, B[m]) => K[n] > K[m]

LEMMA LeafGrows ==
  ASSUME NEW M, NEW A, NEW B, NEW K, NEW d, NEW P, NEW root, NEW A2, NEW B2, NEW P2,
         IsTree(A, B, K, P, root, M, d), NEW p \in M, NEW n \in Nodes, n \notin M, A[p] = Null,
         Grown(A, B, P, A2, B2, P2, M, n, p), Belongs(A, B, K, M, d, n, p)
  PROVE  \E d2 : IsTree(A2, B2, K, P2, root, M \cup {n}, d2)
<1> DEFINE M2 == M \cup {n}
           d2 == [m \in M2 |-> IF m = n THEN {n} ELSE IF p \in d[m] THEN d[m] \cup {n} ELSE d[m]]
<1>1. /\ Ordered(A, B, K, M, d) /\ Null \notin M /\ n # Null /\ n # p
      /\ M \subseteq Nodes /\ K \in [Nodes -> Int] /\ d \in [M -> SUBSET M]
  BY TreeAssumption DEF IsTree, Ordered
<1>2. \A m \in M : /\ A2[m] = IF m = p THEN n ELSE A[m]
                   /\ B2[m] = B[m] /\ P2[m] = P[m]
  BY DEF Grown
<1>3. A2[n] = Null /\ B2[n] = Null /\ P2[n] = p
  BY DEF Grown
<1>4. root \in M /\ p \in d[root] /\ root # Null
  BY <1>1, RootAbove
<1>5. d2 \in [M2 -> SUBSET M2]
  BY <1>1
<1>6. ASSUME NEW c \in M \cup {Null}
      PROVE  Below(d2, c) = IF p \in Below(d, c) THEN Below(d, c) \cup {n} ELSE Below(d, c)
  BY <1>1 DEF Below
<1>7. ASSUME NEW m \in M
      PROVE  /\ A[m] \in M \cup {Null} /\ B[m] \in M \cup {Null}
             /\ d[m] = {m} \cup Below(d, A[m]) \cup Below(d, B[m])
             /\ \A j \in Below(d, A[m]) : K[j] < K[m]
             /\ \A j \in Below(d, B[m]) : K[j] > K[m]
  BY <1>1 DEF Ordered
<1>8. p \notin Below(d, A[p]) /\ p \notin Below(d, B[p])
  BY <1>1, SidesApart
<1>9. /\ d2[n] = {n} /\ Below(d2, Null) = {}
      /\ \A m \in M : d2[m] = IF p \in d[m] THEN d[m] \cup {n} ELSE d[m]
  BY <1>1 DEF Below
<1>10. Below(d2, n) = {n}
  BY <1>1, <1>9 DEF Below
<1>11. ASSUME NEW m \in M
       PROVE  /\ Below(d2, A2[m]) = IF m = p THEN {n} ELSE Below(d2, A[m])
              /\ Below(d2, B2[m]) = Below(d2, B[m])
  BY <1>2, <1>10
<1> HIDE DEF d2
<1>12. ASSUME NEW m \in M
       PROVE  d2[m] = {m} \cup Below(d2, A2[m]) \cup Below(d2, B2[m])
  <2>1. CASE m = p
    <3>1. Below(d, A[p]) = {} /\ p \in d[p]
      BY <1>7 DEF Below
    <3>2. d2[p] = d[p] \cup {n} /\ Below(d2, B[p]) = Below(d, B[p])
      BY <1>6, <1>7, <1>8, <1>9, <3>1
    <3> QED
      BY <1>7, <1>11, <2>1, <3>1, <3>2
  <2>2. CASE m # p
    <3>1. p \in d[m] <=> p \in Below(d, A[m]) \/ p \in Below(d, B[m])
      BY <1>7, <2>2
    <3>2. /\ Below(d2, A[m]) = IF p \in Below(d, A[m]) THEN Below(d, A[m]) \cup {n} ELSE Below(d, A[m])
          /\ Below(d2, B[m]) = IF p \in Below(d, B[m]) THEN Below(d, B[m]) \cup {n} ELSE Below(d, B[m])
      BY <1>6, <1>7
    <3> QED
      BY <1>7, <1>9, <1>11, <2>2, <3>1, <3>2
  <2> QED
    BY <2>1, <2>2
<1>13. ASSUME NEW m \in M
       PROVE  /\ \A j \in Below(d2, A2[m]) : K[j] < K[m]
              /\ \A j \in Below(d2, B2[m]) : K[j] > K[m]
  <2>1. /\ Below(d2, A[m]) = IF p \in Below(d, A[m]) THEN Below(d, A[m]) \cup {n} ELSE Below(d, A[m])
        /\ Below(d2, B[m]) = IF p \in Below(d, B[m]) THEN Below(d, B[m]) \cup {n} ELSE Below(d, B[m])
    BY <1>6, <1>7
  <2>2. /\ p \in Below(d, A[m]) => K[n] < K[m]
        /\ p \in Below(d, B[m]) => K[n] > K[m]
        /\ K[n] < K[p]
    BY DEF Belongs
  <2> QED
    BY <1>7, <1>11, <2>1, <2>2
<1>14. ASSUME NEW m \in M
       PROVE  A2[m] \in M2 \cup {Null} /\ B2[m] \in M2 \cup {Null}
  BY <1>2, <1>7
<1>15. Ordered(A2, B2, K, M2, d2)
  <2>1. ASSUME NEW m \in M2
        PROVE  /\ A2[m] \in M2 \cup {Null} /\ B2[m] \in M2 \cup {Null}
               /\ d2[m] = {m} \cup Below(d2, A2[m]) \cup Below(d2, B2[m])
               /\ \A j \in Below(d2, A2[m]) : K[j] < K[m]
               /\ \A j \in Below(d2, B2[m]) : K[j] > K[m]
    BY <1>3, <1>9, <1>12, <1>13, <1>14
  <2>2. M2 \subseteq Nodes
    BY <1>1
  <2> QED
    BY <1>1, <1>5, <2>1, <2>2 DEF Ordered
<1>16. Rooted(root, M2, d2)
  <2>1. Rooted(root, M, d)
    BY DEF IsTree
  <2> QED
    BY <1>1, <1>4, <1>9, <2>1 DEF Rooted, Below
<1>17. Linked(A2, B2, P2, root, M2)
  <2>1. Linked(A, B, P, root, M)
    BY DEF IsTree
  <2>2. P2[root] = Null
    BY <1>2, <1>4, <2>1 DEF Linked
  <2>3. ASSUME NEW m \in M
        PROVE  /\ A2[m] # Null => P2[A2[m]] = m
               /\ B2[m] # Null => P2[B2[m]] = m
               /\ P2[m] = Null => m = root
               /\ P2[m] # Null => P2[m] \in M /\ (A2[P2[m]] = m \/ B2[P2[m]] = m)
    <3>1. P[m] = p => A[p] # m
      BY <1>1
    <3> QED
      BY <1>2, <1>3, <1>7, <2>1, <3>1 DEF Linked
  <2>4. P2[n] = p /\ A2[p] = n /\ A2[n] = Null /\ B2[n] = Null /\ p # Null
    BY <1>1, <1>2, <1>3
  <2> QED
    BY <2>2, <2>3, <2>4 DEF Linked
<1> QED
  BY <1>15, <1>16, <1>17 DEF IsTree

\* Two trees that look the same from the nodes M.
Alike(t, u, M) ==
    /\ t \in Trees /\ u \in Trees /\ u.root = t.root /\ u.returned = t.returned
    /\ \A m \in M : /\ u.left[m] = t.left[m] /\ u.right[m] = t.right[m]
                    /\ u.parent[m] = t.parent[m] /\ u.height[m] = t.height[m]

LEMMA AlikeNear ==
  ASSUME NEW t, NEW u, NEW M, NEW d, NEW x, Alike(t, u, M), Near(t, M, d, x)
  PROVE  Near(u, M, d, x)
<1>1. /\ t \in Trees /\ u \in Trees /\ u.root = t.root /\ u.returned = t.returned
      /\ \A m \in M : /\ u.left[m] = t.left[m] /\ u.right[m] = t.right[m]
                      /\ u.parent[m] = t.parent[m] /\ u.height[m] = t.height[m]
  BY DEF Alike
<1>2. /\ Sound(t, M, d) /\ t.returned
      /\ \A m \in M : t.height[m] >= 0
      /\ \A m \in M : m # x => Exact(t, m) /\ Even(t, m)
      /\ x \in M \cup {Null}
      /\ x # Null => Off(t, x)
  BY DEF Near
<1>3. /\ Ordered(t.left, t.right, KeyOf, M, d) /\ Linked(t.left, t.right, t.parent, t.root, M)
      /\ Rooted(t.root, M, d)
  BY <1>2 DEF Sound, IsTree
<1>4. Ordered(u.left, u.right, KeyOf, M, d)
  BY <1>1, <1>3 DEF Ordered
<1>5. \A m \in M : t.left[m] \in M \cup {Null} /\ t.right[m] \in M \cup {Null}
  BY <1>3 DEF Ordered
<1>6. Linked(u.left, u.right, u.parent, u.root, M)
  BY <1>1, <1>3, <1>5 DEF Linked, Rooted
<1>7. Sound(u, M, d)
  BY <1>1, <1>3, <1>4, <1>6 DEF Sound, IsTree
<1>8. \A c \in M \cup {Null} : Height(u, c) = Height(t, c)
  BY <1>1 DEF Height
<1>9. Null \notin M
  BY <1>2, SoundFrom DEF Sides
<1>10. ASSUME NEW m \in M
       PROVE  /\ Height(u, u.left[m]) = Height(t, t.left[m])
              /\ Height(u, u.right[m]) = Height(t, t.right[m])
              /\ Exact(t, m) => Exact(u, m)
              /\ Even(t, m) => Even(u, m)
              /\ Off(t, m) => Off(u, m)
  <2>1. /\ Height(u, u.left[m]) = Height(t, t.left[m])
        /\ Height(u, u.right[m]) = Height(t, t.right[m])
    BY <1>1, <1>5, <1>8
  <2>2. Above(u, m) = Above(t, m) /\ Balance(u, m) = Balance(t, m)
    BY <2>1 DEF Above, Balance
  <2> QED
    BY <1>1, <2>1, <2>2 DEF Exact, Even, Off
<1> QED
  BY <1>1, <1>2, <1>7, <1>10 DEF Near

\* The pointer at "ref" is c now.
Points(u, v, ref, c) ==
    /\ v \in Trees /\ v.returned = u.returned /\ v.parent = u.parent /\ v.height = u.height
    /\ v.root = IF ref = RootRef THEN c ELSE u.root
    /\ \A m \in Nodes, side \in Sides : v[side][m] = IF ref = Ref(m, side) THEN c ELSE u[side][m]

LEMMA SetAt ==
  ASSUME NEW u \in Trees, NEW ref \in Refs, NEW c \in Pointers
  PROVE  Points(u, Set(u, ref, c), ref, c)
<1> DEFINE v == Set(u, ref, c)
<1>1. CASE ref = RootRef
  <2>1. v = [u EXCEPT !.root = c]
    BY <1>1 DEF Set
  <2> HIDE DEF v
  <2>2. /\ v \in Trees /\ v.returned = u.returned /\ v.parent = u.parent /\ v.height = u.height
        /\ v.root = c /\ v.left = u.left /\ v.right = u.right
    BY <2>1 DEF Trees
  <2>3. \A m \in Nodes, side \in Sides : ref # Ref(m, side)
    BY <1>1, PointersOf
  <2>4. \A side \in Sides : v[side] = u[side]
    BY <2>2 DEF Trees, Sides
  <2> QED
    BY <1>1, <2>2, <2>3, <2>4 DEF Points, v
<1>2. CASE ref # RootRef
  <2> DEFINE p == ref.node
             s == ref.side
  <2>1. p \in Nodes /\ s \in Sides /\ ref = Ref(p, s)
    BY <1>2, PointersOf
  <2>2. v = [u EXCEPT ![s][p] = c]
    BY <1>2 DEF Set
  <2>3. \A m \in Nodes, side \in Sides : ref = Ref(m, side) <=> m = p /\ side = s
    BY <2>1, PointersOf
  <2> HIDE DEF p, s, v
  <2>4. CASE s = "left"
    <3>1. /\ v \in Trees /\ v.returned = u.returned /\ v.parent = u.parent /\ v.height = u.height
          /\ v.root = u.root /\ v.left = [u.left EXCEPT ![p] = c] /\ v.right = u.right
      BY <2>1, <2>2, <2>4 DEF Trees
    <3>2. \A m \in Nodes, side \in Sides :
             v[side][m] = IF m = p /\ side = s THEN c ELSE u[side][m]
      BY <2>1, <2>4, <3>1 DEF Trees, Sides
    <3> QED
      BY <1>2, <2>3, <3>1, <3>2 DEF Points, v
  <2>5. CASE s = "right"
    <3>1. /\ v \in Trees /\ v.returned = u.returned /\ v.parent = u.parent /\ v.height = u.height
          /\ v.root = u.root /\ v.right = [u.right EXCEPT ![p] = c] /\ v.left = u.left
      BY <2>1, <2>2, <2>5 DEF Trees
    <3>2. \A m \in Nodes, side \in Sides :
             v[side][m] = IF m = p /\ side = s THEN c ELSE u[side][m]
      BY <2>1, <2>5, <3>1 DEF Trees, Sides
    <3> QED
      BY <1>2, <2>3, <3>1, <3>2 DEF Points, v
  <2> QED
    BY <2>1, <2>4, <2>5 DEF Sides
<1> QED
  BY <1>1, <1>2

\* avltree_insert() makes the node a leaf before it rebalances.
Leafed(t, n, ref) ==
    Set([t EXCEPT !.left[n] = Null, !.right[n] = Null, !.parent[n] = ref.node, !.height[n] = 0],
        ref, n)

Leaf(t, u, n, ref) ==
    /\ u \in Trees /\ u.returned = t.returned
    /\ u.root = IF ref = RootRef THEN n ELSE t.root
    /\ u.left[n] = Null /\ u.right[n] = Null /\ u.parent[n] = ref.node /\ u.height[n] = 0
    /\ \A m \in Nodes : m # n =>
          /\ u.parent[m] = t.parent[m] /\ u.height[m] = t.height[m]
          /\ \A side \in Sides :
                u[side][m] = IF ref = Ref(m, side) THEN n ELSE t[side][m]

LEMMA LeafFields ==
  ASSUME NEW t \in Trees, NEW n \in Nodes, NEW ref \in Refs, ref # RootRef => ref.node # n,
         NEW u, u = Leafed(t, n, ref)
  PROVE  Leaf(t, u, n, ref)
<1> DEFINE bare == [t EXCEPT !.left[n] = Null, !.right[n] = Null]
           q    == ref.node
           hung == [bare EXCEPT !.parent[n] = q]
           put  == [hung EXCEPT !.height[n] = 0]
<1>1. u = Set(put, ref, n)
  BY DEF Leafed
<1>2. q \in Pointers /\ n \in Pointers /\ Null \in Pointers
  BY PointersOf DEF Pointers, RootRef
<1>3. /\ put \in Trees /\ put.returned = t.returned /\ put.root = t.root
      /\ put.left = [t.left EXCEPT ![n] = Null] /\ put.right = [t.right EXCEPT ![n] = Null]
      /\ put.parent = [t.parent EXCEPT ![n] = q] /\ put.height = [t.height EXCEPT ![n] = 0]
  <2>1. /\ bare \in Trees /\ bare.returned = t.returned /\ bare.root = t.root
        /\ bare.left = [t.left EXCEPT ![n] = Null] /\ bare.right = [t.right EXCEPT ![n] = Null]
        /\ bare.parent = t.parent /\ bare.height = t.height
    BY <1>2 DEF Trees
  <2> HIDE DEF bare, q
  <2>2. /\ hung \in Trees /\ hung.returned = bare.returned /\ hung.root = bare.root
        /\ hung.left = bare.left /\ hung.right = bare.right
        /\ hung.parent = [bare.parent EXCEPT ![n] = q] /\ hung.height = bare.height
    BY <1>2, <2>1 DEF Trees
  <2> HIDE DEF hung
  <2>3. /\ put \in Trees /\ put.returned = hung.returned /\ put.root = hung.root
        /\ put.left = hung.left /\ put.right = hung.right
        /\ put.parent = hung.parent /\ put.height = [hung.height EXCEPT ![n] = 0]
    BY <2>2 DEF Trees
  <2> HIDE DEF put
  <2> QED
    BY <2>1, <2>2, <2>3
<1> HIDE DEF put
<1>4. Points(put, u, ref, n)
  BY <1>1, <1>2, <1>3, SetAt
<1>5. ASSUME NEW m \in Nodes, NEW side \in Sides, m # n PROVE put[side][m] = t[side][m]
  BY <1>3, <1>5 DEF Trees, Sides
<1>6. ASSUME NEW side \in Sides PROVE put[side][n] = Null /\ ref # Ref(n, side)
  <2>1. put[side][n] = Null
    BY <1>3 DEF Trees, Sides
  <2>2. ref # Ref(n, side)
    BY PointersOf
  <2> QED
    BY <2>1, <2>2
<1>7. /\ put.parent[n] = q /\ put.height[n] = 0
      /\ \A m \in Nodes : m # n => put.parent[m] = t.parent[m] /\ put.height[m] = t.height[m]
  BY <1>3 DEF Trees
<1>8. u["left"][n] = Null /\ u["right"][n] = Null
  BY <1>4, <1>6 DEF Points, Sides
<1>9. u.left[n] = Null /\ u.right[n] = Null
  BY <1>4, <1>8 DEF Points, Trees
<1> QED
  BY <1>3, <1>4, <1>5, <1>7, <1>9 DEF Points, Leaf

\* Then only its parent may be out of balance.
LEMMA LeafNear ==
  ASSUME NEW t, NEW M, NEW d, Near(t, M, d, Null), NEW n \in Nodes, n \notin M,
         NEW ref, OnTheWay(t, M, d, ref, KeyOf[n]), Get(t, ref) = Null,
         NEW u, u = Leafed(t, n, ref)
  PROVE  \E d2 : Near(u, M \cup {n}, d2, ref.node)
<1> DEFINE M2 == M \cup {n}
           k  == KeyOf[n]
<1>1. /\ Sound(t, M, d) /\ t.returned /\ t \in Trees /\ Null \notin M /\ M \subseteq Nodes /\ n # Null
      /\ \A m \in M : t.height[m] >= 0 /\ Exact(t, m) /\ Even(t, m)
  <2>1. /\ Sound(t, M, d) /\ t.returned
        /\ \A m \in M : t.height[m] >= 0 /\ (m # Null => Exact(t, m) /\ Even(t, m))
    BY DEF Near
  <2>2. t \in Trees /\ Null \notin M /\ M \subseteq Nodes
    BY <2>1, SoundFrom DEF Sides
  <2> QED
    BY <2>1, <2>2, TreeAssumption
<1>2. /\ ref \in Refs /\ Fits(t, M, d, ref, k)
  BY DEF OnTheWay
<1>3. /\ u \in Trees /\ u.returned = t.returned
      /\ u.root = IF ref = RootRef THEN n ELSE t.root
      /\ u.left[n] = Null /\ u.right[n] = Null /\ u.parent[n] = ref.node /\ u.height[n] = 0
      /\ \A m \in Nodes : m # n =>
            /\ u.parent[m] = t.parent[m] /\ u.height[m] = t.height[m]
            /\ \A side \in Sides :
                  u[side][m] = IF ref = Ref(m, side) THEN n ELSE t[side][m]
  <2>1. ref # RootRef => ref.node # n
    BY <1>2 DEF Fits
  <2>2. Leaf(t, u, n, ref)
    BY <1>1, <1>2, <2>1, LeafFields
  <2> QED
    BY <2>2 DEF Leaf
<1>4. Exact(u, n) /\ Even(u, n) /\ Height(u, n) = 0
  BY <1>1, <1>3 DEF Exact, Even, Above, Balance, Height
<1>5. CASE ref = RootRef
  <2>1. t.root = Null /\ M = {}
    <3>1. t.root = Null
      BY <1>1, <1>5, PointersOf
    <3>2. Rooted(t.root, M, d)
      BY <1>1 DEF Sound, IsTree
    <3> QED
      BY <3>1, <3>2 DEF Rooted, Below
  <2> DEFINE d2 == [m \in {n} |-> {n}]
  <2>2. ref.node = Null /\ u.root = n
    BY <1>3, <1>5 DEF RootRef
  <2>3. Ordered(u.left, u.right, KeyOf, {n}, d2)
    BY <1>3, TreeAssumption DEF Ordered, Below
  <2>4. Linked(u.left, u.right, u.parent, n, {n})
    BY <1>3, <2>2 DEF Linked
  <2>5. Rooted(n, {n}, d2)
    BY <1>1 DEF Rooted, Below
  <2>6. Sound(u, {n}, d2)
    BY <1>3, <2>2, <2>3, <2>4, <2>5 DEF Sound, IsTree
  <2>7. Near(u, {n}, d2, Null)
    BY <1>1, <1>3, <1>4, <2>6 DEF Near
  <2> QED
    BY <2>1, <2>2, <2>7
<1>6. CASE ref # RootRef
  <2> DEFINE p     == ref.node
             side  == ref.side
             other == Opposite(side)
             A == t[side]
             B == t[other]
             K == KeyFrom(side)
             A2 == u[side]
             B2 == u[other]
             P2 == u.parent
  <2>1. /\ p \in M /\ side \in Sides /\ p # n
        /\ IF side = "left" THEN k < KeyOf[p] ELSE k > KeyOf[p]
        /\ \A m \in M : /\ p \in Below(d, t.left[m]) => k < KeyOf[m]
                        /\ p \in Below(d, t.right[m]) => k > KeyOf[m]
    BY <1>2, <1>6 DEF Fits
  <2>2. /\ IsTree(A, B, K, t.parent, t.root, M, d) /\ other \in Sides /\ other # side
    BY <1>1, <2>1, SoundFrom
  <2>3. ref = Ref(p, side) /\ A[p] = Null
    BY <1>1, <1>2, <1>6, PointersOf
  <2>4. \A m \in M, s \in Sides : ref = Ref(m, s) <=> m = p /\ s = side
    BY <1>1, <2>1, <2>3, PointersOf
  <2>5. \A m \in M, s \in Sides : u[s][m] = IF m = p /\ s = side THEN n ELSE t[s][m]
    BY <1>1, <1>3, <2>4
  <2>6. \A s \in Sides : u[s][n] = Null
    BY <1>3 DEF Sides
  <2>7. \A m \in M : u.parent[m] = t.parent[m] /\ u.height[m] = t.height[m]
    BY <1>1, <1>3
  <2>8. Grown(A, B, t.parent, A2, B2, P2, M, n, p)
    BY <1>3, <2>1, <2>2, <2>5, <2>6, <2>7 DEF Grown
  <2>9. Belongs(A, B, K, M, d, n, p)
    <3>1. \A m \in Nodes : KeyOf[m] \in Int
      BY TreeAssumption
    <3>2. CASE side = "left"
      <4>1. \A m \in Nodes : K[m] = KeyOf[m]
        BY <3>2 DEF KeyFrom
      <4>2. A = t.left /\ B = t.right
        BY <3>2 DEF Opposite
      <4> QED
        BY <1>1, <2>1, <3>1, <3>2, <4>1, <4>2 DEF Belongs
    <3>3. CASE side = "right"
      <4>1. \A m \in Nodes : K[m] = -KeyOf[m]
        BY <3>3 DEF KeyFrom
      <4>2. A = t.right /\ B = t.left
        BY <3>3 DEF Opposite
      <4> QED
        BY <1>1, <2>1, <3>1, <3>3, <4>1, <4>2 DEF Belongs
    <3> QED
      BY <2>1, <3>2, <3>3 DEF Sides
  <2> HIDE DEF p, side, other, A, B, K, A2, B2, P2
  <2>10. PICK d2 : IsTree(A2, B2, K, P2, t.root, M2, d2)
    BY <1>1, <2>1, <2>2, <2>3, <2>8, <2>9, LeafGrows
  <2>11. Sound(u, M2, d2)
    BY <1>3, <1>6, <2>1, <2>10, FromEitherSide DEF A2, B2, K, P2, other
  <2>12. ASSUME NEW m \in M, NEW s \in Sides
         PROVE  Height(u, u[s][m]) = IF m = p /\ s = side THEN 0 ELSE Height(t, t[s][m])
    <3>1. CASE m = p /\ s = side
      BY <1>4, <2>5, <3>1
    <3>2. CASE ~(m = p /\ s = side)
      <4>1. u[s][m] = t[s][m]
        BY <2>5, <3>2
      <4>2. t[s][m] \in M \cup {Null}
        BY <1>1, Family
      <4> QED
        BY <2>7, <3>2, <4>1, <4>2 DEF Height
    <3> QED
      BY <3>1, <3>2
  <2>13. ASSUME NEW m \in M
         PROVE  /\ Above(u, m) = Taller(Height(u, u[side][m]), Height(u, u[other][m]))
                /\ Above(t, m) = Taller(Height(t, t[side][m]), Height(t, t[other][m]))
                /\ Even(u, m) <=> Height(u, u[side][m]) - Height(u, u[other][m]) \in -1..1
                /\ Even(t, m) <=> Height(t, t[side][m]) - Height(t, t[other][m]) \in -1..1
    BY <1>1, <2>1, <2>11, HeightsAreNumbers, Leaning DEF other
  <2>14. ASSUME NEW m \in M, m # p
         PROVE  Exact(u, m) /\ Even(u, m)
    <3>1. /\ Height(u, u[side][m]) = Height(t, t[side][m])
          /\ Height(u, u[other][m]) = Height(t, t[other][m])
      BY <2>1, <2>2, <2>12, <2>14
    <3> QED
      BY <1>1, <2>7, <2>13, <3>1 DEF Exact
  <2>15. Off(u, p)
    <3> DEFINE h == Height(t, t[other][p])
    <3>1. /\ Height(t, t[side][p]) = -1 /\ Height(u, u[side][p]) = 0
          /\ Height(u, u[other][p]) = h /\ h \in Int
      <4>1. Height(t, t[side][p]) = -1
        BY <2>3 DEF Height, A
      <4>2. Height(u, u[side][p]) = 0 /\ Height(u, u[other][p]) = h
        BY <2>1, <2>2, <2>12
      <4> QED
        BY <1>1, <2>1, <2>2, <4>1, <4>2, HeightsAreNumbers
    <3>2. u.height[p] = Taller(-1, h) /\ -1 - h \in -1..1
      BY <1>1, <2>1, <2>7, <2>13, <3>1 DEF Exact
    <3>3. Taller(-1, h) = Taller(h, -1)
      BY <3>1 DEF Taller
    <3> HIDE DEF h
    <3>4. CASE side = "left"
      <4>1. Height(u, u.left[p]) = 0 /\ Height(u, u.right[p]) = h
        BY <3>1, <3>4 DEF other, Opposite
      <4> QED
        BY <3>1, <3>2, <4>1 DEF Off
    <3>5. CASE side = "right"
      <4>1. Height(u, u.right[p]) = 0 /\ Height(u, u.left[p]) = h
        BY <3>1, <3>5 DEF other, Opposite
      <4>2. h - -1 \in -1..1 /\ -1 - 0 \in -1..1
        BY <3>1, <3>2
      <4> QED
        BY <3>1, <3>2, <3>3, <4>1, <4>2 DEF Off
    <3> QED
      BY <2>1, <3>4, <3>5 DEF Sides
  <2>16. Near(u, M2, d2, p)
    BY <1>1, <1>3, <1>4, <2>1, <2>7, <2>11, <2>14, <2>15 DEF Near
  <2> QED
    BY <2>16 DEF p
<1> QED
  BY <1>5, <1>6

-----------------------------------------------------------------------------
(* Taking a node out *)

\* Nodes that are not above one another are on the two sides of a third.
LEMMA OnTwoSides ==
  ASSUME NEW M, NEW A, NEW B, NEW K, NEW d, NEW root,
         Ordered(A, B, K, M, d), Rooted(root, M, d),
         NEW p \in M, NEW q \in M, p \notin d[q], q \notin d[p]
  PROVE  \E a \in M : \/ p \in Below(d, A[a]) /\ q \in Below(d, B[a])
                      \/ q \in Below(d, A[a]) /\ p \in Below(d, B[a])
<1> DEFINE U == {d[j] : j \in {i \in M : p \in d[i] /\ q \in d[i]}}
<1>1. IsFiniteSet(M) /\ M \subseteq Nodes /\ Null \notin M
  BY TreeAssumption, FS_Subset DEF Ordered
<1>2. U \in SUBSET SUBSET M
  BY SidesApart
<1>3. root \in M /\ d[root] = M
  BY <1>1 DEF Rooted, Below
<1>4. U # {}
  BY <1>3
<1> HIDE DEF U
<1>5. PICK s \in U : \A v \in U : v \subseteq s => v = s
  BY <1>1, <1>2, <1>4, SmallestSet
<1>6. PICK a \in M : s = d[a] /\ p \in d[a] /\ q \in d[a]
  BY <1>5 DEF U
<1>7. /\ A[a] \in M \cup {Null} /\ B[a] \in M \cup {Null}
      /\ d[a] = {a} \cup Below(d, A[a]) \cup Below(d, B[a])
      /\ a \notin Below(d, A[a]) /\ a \notin Below(d, B[a])
  <2>1. a \notin Below(d, A[a]) /\ a \notin Below(d, B[a])
    BY SidesApart
  <2> QED
    BY <2>1 DEF Ordered
<1>8. a # p /\ a # q
  BY <1>6
<1>9. ASSUME NEW c \in M, d[c] \subseteq d[a], a \notin d[c], p \in d[c], q \in d[c]
      PROVE  FALSE
  <2>1. d[c] \in U
    BY <1>9 DEF U
  <2>2. d[c] # d[a]
    BY <1>9, SidesApart
  <2> QED
    BY <1>5, <1>6, <1>9, <2>1, <2>2
<1>10. ~(p \in Below(d, A[a]) /\ q \in Below(d, A[a]))
  BY <1>7, <1>9 DEF Below
<1>11. ~(p \in Below(d, B[a]) /\ q \in Below(d, B[a]))
  BY <1>7, <1>9 DEF Below
<1> QED
  BY <1>6, <1>7, <1>8, <1>10, <1>11

\* No node has two parents, and the root has none, whatever the parent pointers
\* say.
LEMMA OneParent ==
  ASSUME NEW M, NEW A, NEW B, NEW K, NEW d, NEW root,
         Ordered(A, B, K, M, d), Rooted(root, M, d),
         NEW p \in M, NEW n \in M, A[p] = n \/ B[p] = n
  PROVE  /\ n # root
         /\ \A q \in M : A[q] = n \/ B[q] = n => q = p
<1>1. \A q \in M : A[q] = n \/ B[q] = n => n \in d[q] /\ q \notin d[n]
  <2> SUFFICES ASSUME NEW q \in M, A[q] = n \/ B[q] = n PROVE n \in d[q] /\ q \notin d[n]
    OBVIOUS
  <2>1. /\ d[q] = {q} \cup Below(d, A[q]) \cup Below(d, B[q])
        /\ q \notin Below(d, A[q]) /\ q \notin Below(d, B[q])
    BY SidesApart DEF Ordered
  <2>2. Null \notin M /\ n \in d[n]
    BY SidesApart, TreeAssumption DEF Ordered
  <2> QED
    BY <2>1, <2>2 DEF Below
<1>2. n # root
  <2>1. n = root => p \in d[n]
    BY TreeAssumption DEF Rooted, Below, Ordered
  <2> QED
    BY <1>1, <2>1
<1>3. ASSUME NEW a \in M
      PROVE  /\ d[a] = {a} \cup Below(d, A[a]) \cup Below(d, B[a])
             /\ A[a] \in M \cup {Null} /\ B[a] \in M \cup {Null}
             /\ Below(d, A[a]) \cap Below(d, B[a]) = {}
  <2>1. Below(d, A[a]) \cap Below(d, B[a]) = {}
    BY SidesApart
  <2> QED
    BY <2>1 DEF Ordered
<1>5. ASSUME NEW q \in M, A[q] = n \/ B[q] = n, q # p PROVE FALSE
  <2>1. ASSUME NEW a \in M, NEW b \in M, a # b, b \in d[a], n \in d[b], A[a] = n \/ B[a] = n
        PROVE  b \in d[n]
    <3>1. /\ d[a] = {a} \cup Below(d, A[a]) \cup Below(d, B[a])
          /\ A[a] \in M \cup {Null} /\ B[a] \in M \cup {Null}
          /\ Below(d, A[a]) \cap Below(d, B[a]) = {}
      BY <1>3
    <3>2. n # Null /\ n \in d[n]
      BY SidesApart, TreeAssumption DEF Ordered
    <3>3. CASE b \in Below(d, A[a])
      <4>1. n \in Below(d, A[a])
        BY <2>1, <3>1, <3>3, BelowBelow DEF Below
      <4> QED
        BY <2>1, <3>1, <3>2, <3>3, <4>1 DEF Below
    <3>4. CASE b \in Below(d, B[a])
      <4>1. n \in Below(d, B[a])
        BY <2>1, <3>1, <3>4, BelowBelow DEF Below
      <4> QED
        BY <2>1, <3>1, <3>2, <3>4, <4>1 DEF Below
    <3> QED
      BY <2>1, <3>1, <3>3, <3>4
  <2>2. n \in d[p] /\ n \in d[q] /\ p \notin d[n] /\ q \notin d[n]
    BY <1>1, <1>5
  <2>3. p \notin d[q] /\ q \notin d[p]
    BY <1>5, <2>1, <2>2
  <2>4. PICK a \in M : \/ p \in Below(d, A[a]) /\ q \in Below(d, B[a])
                       \/ q \in Below(d, A[a]) /\ p \in Below(d, B[a])
    BY <2>3, OnTwoSides
  <2>5. /\ A[a] \in M \cup {Null} /\ B[a] \in M \cup {Null}
        /\ Below(d, A[a]) \cap Below(d, B[a]) = {}
    BY <1>3
  <2>6. n \in Below(d, A[a]) /\ n \in Below(d, B[a])
    BY <2>2, <2>4, <2>5, BelowBelow DEF Below
  <2> QED
    BY <2>5, <2>6
<1> QED
  BY <1>2, <1>5

\* The pointer at "ref" leads to n.
LeadsTo(t, M, ref, n) ==
    /\ ref \in Refs /\ (ref # RootRef => ref.node \in M)
    /\ n \in M /\ Get(t, ref) = n

\* A search tree, whatever its parent pointers say.
Searched(t, M, d) ==
    t \in Trees /\ Ordered(t.left, t.right, KeyOf, M, d) /\ Rooted(t.root, M, d)

\* No other does.
LEMMA OneReference ==
  ASSUME NEW t, NEW M, NEW d, Searched(t, M, d), NEW ref, NEW n, LeadsTo(t, M, ref, n)
  PROVE  /\ t.root = n <=> ref = RootRef
         /\ \A m \in M, side \in Sides : t[side][m] = n <=> ref = Ref(m, side)
<1>1. /\ t \in Trees /\ Ordered(t.left, t.right, KeyOf, M, d) /\ Rooted(t.root, M, d)
      /\ M \subseteq Nodes /\ ref \in Refs /\ n \in M /\ Get(t, ref) = n
  BY DEF Searched, LeadsTo, Ordered
<1>2. t["left"] = t.left /\ t["right"] = t.right
  OBVIOUS
<1>3. ASSUME NEW m \in M, NEW side \in Sides, t[side][m] = n
      PROVE  /\ n # t.root
             /\ \A q \in M, s \in Sides : t[s][q] = n => q = m /\ s = side
  <2>1. t.left[m] = n \/ t.right[m] = n
    BY <1>2, <1>3 DEF Sides
  <2>2. /\ n # t.root
        /\ \A q \in M : t.left[q] = n \/ t.right[q] = n => q = m
    BY <1>1, <2>1, OneParent
  <2>3. t.left[m] # Null => t.left[m] # t.right[m]
    BY <1>1, SidesApart
  <2>4. n # Null
    BY <1>1, TreeAssumption
  <2> QED
    BY <1>2, <1>3, <2>2, <2>3, <2>4 DEF Sides
<1>4. CASE ref = RootRef
  <2>1. t.root = n
    BY <1>1, <1>4, PointersOf
  <2>2. \A m \in M, side \in Sides : ref # Ref(m, side)
    BY <1>1, <1>4, PointersOf
  <2> QED
    BY <1>3, <1>4, <2>1, <2>2
<1>5. CASE ref # RootRef
  <2> DEFINE p == ref.node
             s == ref.side
  <2>1. p \in M /\ s \in Sides /\ ref = Ref(p, s) /\ t[s][p] = n
    BY <1>1, <1>5, PointersOf DEF LeadsTo
  <2>2. \A m \in M, side \in Sides : ref = Ref(m, side) <=> m = p /\ side = s
    BY <1>1, <2>1, PointersOf
  <2> HIDE DEF p, s
  <2> QED
    BY <1>3, <1>5, <2>1, <2>2
<1> QED
  BY <1>4, <1>5

\* The node n has given its place to its only child, or to none.
Cut(A, B, root, A2, B2, root2, M, n, c) ==
    /\ (A[n] = Null /\ c = B[n]) \/ (B[n] = Null /\ c = A[n])
    /\ \A m \in M : m # n => /\ A2[m] = IF A[m] = n THEN c ELSE A[m]
                             /\ B2[m] = IF B[m] = n THEN c ELSE B[m]
    /\ root2 = IF root = n THEN c ELSE root

Without(d, M, n) == [m \in M \ {n} |-> d[m] \ {n}]

LEMMA CutOrdered ==
  ASSUME NEW M, NEW A, NEW B, NEW K, NEW d, NEW root, NEW A2, NEW B2, NEW root2, NEW c,
         Ordered(A, B, K, M, d), Rooted(root, M, d), NEW n \in M,
         Cut(A, B, root, A2, B2, root2, M, n, c)
  PROVE  /\ Ordered(A2, B2, K, M \ {n}, Without(d, M, n))
         /\ Rooted(root2, M \ {n}, Without(d, M, n))
<1> DEFINE M2 == M \ {n}
           d2 == Without(d, M, n)
<1>1. Null \notin M /\ M \subseteq Nodes /\ K \in [Nodes -> Int] /\ d \in [M -> SUBSET M]
  BY TreeAssumption DEF Ordered
<1>2. /\ (A[n] = Null /\ c = B[n]) \/ (B[n] = Null /\ c = A[n])
      /\ root2 = IF root = n THEN c ELSE root
  BY DEF Cut
<1>3. ASSUME NEW m \in M
      PROVE  /\ A[m] \in M \cup {Null} /\ B[m] \in M \cup {Null}
             /\ d[m] = {m} \cup Below(d, A[m]) \cup Below(d, B[m])
             /\ \A j \in Below(d, A[m]) : K[j] < K[m]
             /\ \A j \in Below(d, B[m]) : K[j] > K[m]
  BY DEF Ordered
<1>4. /\ c \in M \cup {Null} /\ c # n /\ n \notin Below(d, c)
      /\ d[n] = {n} \cup Below(d, c)
  <2>1. /\ n \notin Below(d, A[n]) /\ n \notin Below(d, B[n])
        /\ A[n] # n /\ B[n] # n
    BY SidesApart
  <2> QED
    BY <1>1, <1>2, <1>3, <2>1 DEF Below
<1>5. /\ d2 \in [M2 -> SUBSET M2]
      /\ \A m \in M2 : d2[m] = d[m] \ {n}
  BY <1>1 DEF Without
<1> HIDE DEF d2
<1>6. ASSUME NEW j \in M \cup {Null}
      PROVE  /\ (IF j = n THEN c ELSE j) \in M2 \cup {Null}
             /\ Below(d2, IF j = n THEN c ELSE j) = Below(d, j) \ {n}
  <2>1. CASE j = n
    BY <1>1, <1>4, <1>5, <2>1 DEF Below
  <2>2. CASE j # n
    BY <1>1, <1>5, <2>2 DEF Below
  <2> QED
    BY <2>1, <2>2
<1>7. ASSUME NEW m \in M2
      PROVE  /\ A2[m] \in M2 \cup {Null} /\ B2[m] \in M2 \cup {Null}
             /\ d2[m] = {m} \cup Below(d2, A2[m]) \cup Below(d2, B2[m])
             /\ \A j \in Below(d2, A2[m]) : K[j] < K[m]
             /\ \A j \in Below(d2, B2[m]) : K[j] > K[m]
  <2>1. /\ A2[m] = IF A[m] = n THEN c ELSE A[m]
        /\ B2[m] = IF B[m] = n THEN c ELSE B[m]
    BY DEF Cut
  <2>2. /\ A2[m] \in M2 \cup {Null} /\ B2[m] \in M2 \cup {Null}
        /\ Below(d2, A2[m]) = Below(d, A[m]) \ {n}
        /\ Below(d2, B2[m]) = Below(d, B[m]) \ {n}
    BY <1>3, <1>6, <2>1
  <2> QED
    BY <1>3, <1>5, <2>2
<1>8. Ordered(A2, B2, K, M2, d2)
  BY <1>1, <1>5, <1>7 DEF Ordered
<1>9. Rooted(root2, M2, d2)
  <2>1. root \in M \cup {Null} /\ Below(d, root) = M
    BY DEF Rooted
  <2>2. root2 \in M2 \cup {Null} /\ Below(d2, root2) = M2
    BY <1>2, <1>6, <2>1
  <2> QED
    BY <2>2 DEF Rooted
<1> QED
  BY <1>8, <1>9 DEF d2

\* A node with at most one child is replaced by it, or by nothing.
OnlyChild(t, n, c) ==
    \/ t.left[n] = Null /\ c = t.right[n]
    \/ t.right[n] = Null /\ c = t.left[n]

Spliced(t, u, M, d, n, c) ==
    /\ Searched(u, M \ {n}, Without(d, M, n))
    /\ u.returned = t.returned /\ u.height = t.height
    /\ u.parent = IF c = Null THEN t.parent ELSE [t.parent EXCEPT ![c] = t.parent[n]]
    /\ Cut(t.left, t.right, t.root, u.left, u.right, u.root, M, n, c)

LEMMA SpliceCuts ==
  ASSUME NEW t, NEW M, NEW d, Searched(t, M, d), NEW ref, NEW n, LeadsTo(t, M, ref, n),
         NEW c, OnlyChild(t, n, c)
  PROVE  Spliced(t, Splice(t, ref, c), M, d, n, c)
<1> DEFINE up == IF c = Null THEN t ELSE [t EXCEPT !.parent[c] = t.parent[n]]
           u  == Splice(t, ref, c)
<1>1. /\ t \in Trees /\ Ordered(t.left, t.right, KeyOf, M, d) /\ Rooted(t.root, M, d)
      /\ M \subseteq Nodes /\ ref \in Refs /\ n \in M /\ Get(t, ref) = n
  BY DEF Searched, LeadsTo, Ordered
<1>2. t.left[n] \in M \cup {Null} /\ t.right[n] \in M \cup {Null}
  BY <1>1 DEF Ordered
<1>3. c \in M \cup {Null} /\ c \in Pointers
  BY <1>1, <1>2 DEF OnlyChild, Pointers
<1>4. /\ up \in Trees /\ up.returned = t.returned /\ up.height = t.height
      /\ up.left = t.left /\ up.right = t.right /\ up.root = t.root
      /\ up.parent = IF c = Null THEN t.parent ELSE [t.parent EXCEPT ![c] = t.parent[n]]
  <2> DEFINE q == t.parent[n]
  <2>1. q \in Pointers
    BY <1>1 DEF Trees
  <2> HIDE DEF q
  <2>2. CASE c = Null
    BY <1>1, <2>2
  <2>3. CASE c # Null
    <3>1. up = [t EXCEPT !.parent[c] = q] /\ c \in Nodes
      BY <1>1, <1>3, <2>3 DEF q
    <3> HIDE DEF up
    <3>2. /\ up \in Trees /\ up.returned = t.returned /\ up.height = t.height
          /\ up.left = t.left /\ up.right = t.right /\ up.root = t.root
          /\ up.parent = [t.parent EXCEPT ![c] = q]
      BY <1>1, <2>1, <3>1 DEF Trees
    <3> QED
      BY <2>3, <3>2 DEF q
  <2> QED
    BY <2>2, <2>3
<1>5. u = Set(up, ref, c)
  BY <1>1 DEF Splice
<1> HIDE DEF up, u
<1>6. Points(up, u, ref, c)
  BY <1>1, <1>3, <1>4, <1>5, SetAt
<1>7. /\ t.root = n <=> ref = RootRef
      /\ \A m \in M, side \in Sides : t[side][m] = n <=> ref = Ref(m, side)
  BY OneReference
<1>8. /\ u \in Trees /\ u.returned = t.returned /\ u.height = t.height
      /\ u.parent = IF c = Null THEN t.parent ELSE [t.parent EXCEPT ![c] = t.parent[n]]
      /\ u.root = IF t.root = n THEN c ELSE t.root
  BY <1>4, <1>6, <1>7 DEF Points
<1>9. /\ u["left"] = u.left /\ u["right"] = u.right /\ t["left"] = t.left /\ t["right"] = t.right
      /\ up["left"] = up.left /\ up["right"] = up.right
  OBVIOUS
<1>10. \A m \in M : /\ u.left[m] = IF t.left[m] = n THEN c ELSE t.left[m]
                    /\ u.right[m] = IF t.right[m] = n THEN c ELSE t.right[m]
  <2>1. \A m \in M, side \in Sides : u[side][m] = IF t[side][m] = n THEN c ELSE up[side][m]
    BY <1>1, <1>6, <1>7 DEF Points
  <2> QED
    BY <1>4, <1>9, <2>1 DEF Sides
<1>11. Cut(t.left, t.right, t.root, u.left, u.right, u.root, M, n, c)
  BY <1>8, <1>10 DEF Cut, OnlyChild
<1> DEFINE A == t.left
           B == t.right
           A2 == u.left
           B2 == u.right
<1>12. /\ Ordered(A2, B2, KeyOf, M \ {n}, Without(d, M, n))
       /\ Rooted(u.root, M \ {n}, Without(d, M, n))
  <2>1. Ordered(A, B, KeyOf, M, d) /\ Cut(A, B, t.root, A2, B2, u.root, M, n, c)
    BY <1>1, <1>11
  <2> HIDE DEF A, B, A2, B2
  <2> QED
    BY <1>1, <2>1, CutOrdered
<1> QED
  BY <1>8, <1>11, <1>12 DEF Spliced, Searched, u

\* Then only its parent may be out of balance.
LEMMA SpliceNear ==
  ASSUME NEW t, NEW M, NEW d, Near(t, M, d, Null), NEW ref, NEW n, LeadsTo(t, M, ref, n),
         NEW c, OnlyChild(t, n, c), NEW u, u = Splice(t, ref, c)
  PROVE  Near(u, M \ {n}, Without(d, M, n), u.parent[n])
<1> DEFINE M2 == M \ {n}
           d2 == Without(d, M, n)
           A == t.left
           B == t.right
           P == t.parent
           A2 == u.left
           B2 == u.right
           P2 == u.parent
           q == P[n]
<1>1. /\ Sound(t, M, d) /\ t.returned /\ t \in Trees /\ Null \notin M /\ M \subseteq Nodes /\ n \in M
      /\ \A m \in M : t.height[m] >= 0 /\ Exact(t, m) /\ Even(t, m)
  <2>1. /\ Sound(t, M, d) /\ t.returned
        /\ \A m \in M : t.height[m] >= 0 /\ (m # Null => Exact(t, m) /\ Even(t, m))
    BY DEF Near
  <2>2. t \in Trees /\ Null \notin M /\ M \subseteq Nodes
    BY <2>1, SoundFrom DEF Sides
  <2> QED
    BY <2>1, <2>2 DEF LeadsTo
<1>2. Searched(t, M, d) /\ Linked(A, B, P, t.root, M) /\ Rooted(t.root, M, d)
  BY <1>1 DEF Sound, IsTree, Searched
<1>3. Spliced(t, u, M, d, n, c)
  BY <1>2, SpliceCuts
<1>4. /\ u \in Trees /\ u.returned /\ u.height = t.height
      /\ P2 = IF c = Null THEN P ELSE [P EXCEPT ![c] = P[n]]
      /\ \A m \in M2 : /\ A2[m] = IF A[m] = n THEN c ELSE A[m]
                       /\ B2[m] = IF B[m] = n THEN c ELSE B[m]
      /\ u.root = IF t.root = n THEN c ELSE t.root
      /\ Ordered(A2, B2, KeyOf, M2, d2) /\ Rooted(u.root, M2, d2)
  BY <1>1, <1>3 DEF Spliced, Searched, Cut
<1>5. \A m \in M, s \in Sides :
         /\ t[s][m] \in M \cup {Null} /\ t[s][m] # m
         /\ t[s][m] # Null => P[t[s][m]] = m /\ t[s][m] # t.root
  BY <1>1, Family
<1>6. \A m \in M :
         /\ A[m] \in M \cup {Null} /\ B[m] \in M \cup {Null} /\ A[m] # m /\ B[m] # m
         /\ A[m] # Null => P[A[m]] = m /\ A[m] # t.root
         /\ B[m] # Null => P[B[m]] = m /\ B[m] # t.root
  <2>1. t["left"] = t.left /\ t["right"] = t.right
    OBVIOUS
  <2> QED
    BY <1>5, <2>1 DEF Sides
<1>7. (A[n] = Null /\ c = B[n]) \/ (B[n] = Null /\ c = A[n])
  BY DEF OnlyChild
<1>8. /\ c \in M2 \cup {Null} /\ c # n
      /\ c # Null => P[c] = n /\ c # t.root
  BY <1>1, <1>6, <1>7
<1>9. /\ \A m \in M : P2[m] = IF m = c THEN P[n] ELSE P[m]
      /\ P2[n] = P[n]
  <2>1. P \in [Nodes -> Pointers]
    BY <1>1 DEF Trees
  <2> QED
    BY <1>1, <1>4, <1>8, <2>1
<1>10. /\ q # n
       /\ IF q = Null THEN n = t.root
          ELSE /\ q \in M /\ n # t.root
               /\ (A[q] = n /\ B[q] # n) \/ (B[q] = n /\ A[q] # n)
  BY <1>1, Family DEF Sides
<1> HIDE DEF A, B, P, A2, B2, P2, q, d2
<1>11. Linked(A2, B2, P2, u.root, M2)
  <2>1. ASSUME NEW m \in M2
        PROVE  /\ A2[m] # Null => P2[A2[m]] = m
               /\ B2[m] # Null => P2[B2[m]] = m
    <3>1. ASSUME NEW j \in M \cup {Null}, j # Null => P[j] = m, NEW k, k = IF j = n THEN c ELSE j
          PROVE  k # Null => P2[k] = m
      BY <1>1, <1>8, <1>9, <2>1, <3>1
    <3>2. A[m] \in M \cup {Null} /\ B[m] \in M \cup {Null}
      BY <1>6
    <3> QED
      BY <1>4, <1>6, <3>1, <3>2
  <2>2. ASSUME NEW m \in M2, P2[m] = Null PROVE m = u.root
    BY <1>1, <1>2, <1>4, <1>9, <2>2 DEF Linked
  <2>3. ASSUME NEW m \in M2, P2[m] # Null
        PROVE  P2[m] \in M2 /\ (A2[P2[m]] = m \/ B2[P2[m]] = m)
    <3>1. CASE m = c
      <4>1. P2[m] = q
        BY <1>9, <3>1 DEF q
      <4> QED
        BY <1>4, <1>10, <2>3, <3>1, <4>1
    <3>2. CASE m # c
      <4>1. P[m] \in M /\ (A[P[m]] = m \/ B[P[m]] = m) /\ P2[m] = P[m]
        BY <1>2, <1>9, <2>3, <3>2 DEF Linked
      <4>2. P[m] # n
        BY <1>1, <1>7, <3>2, <4>1
      <4> QED
        BY <1>4, <4>1, <4>2
    <3> QED
      BY <3>1, <3>2
  <2>4. u.root # Null => P2[u.root] = Null
    <3>1. t.root \in M \cup {Null} /\ (t.root # Null => P[t.root] = Null)
      BY <1>2 DEF Linked, Rooted
    <3> QED
      BY <1>1, <1>4, <1>8, <1>9, <3>1
  <2> QED
    BY <2>1, <2>2, <2>3, <2>4 DEF Linked
<1>12. Sound(u, M2, d2)
  BY <1>4, <1>11 DEF Sound, IsTree, A2, B2, P2
<1>13. \A j \in M \cup {Null} : Height(u, j) = Height(t, j)
  BY <1>4 DEF Height
<1>14. ASSUME NEW m \in M2, m # q
       PROVE  Exact(u, m) /\ Even(u, m)
  <2>1. A[m] # n /\ B[m] # n
    BY <1>1, <1>6, <1>14 DEF q
  <2>2. A2[m] = A[m] /\ B2[m] = B[m]
    BY <1>4, <2>1
  <2>3. Height(u, A2[m]) = Height(t, A[m]) /\ Height(u, B2[m]) = Height(t, B[m])
    BY <1>6, <1>13, <2>2
  <2>4. Above(u, m) = Above(t, m) /\ Balance(u, m) = Balance(t, m)
    BY <2>3 DEF Above, Balance, A, B, A2, B2
  <2> QED
    BY <1>1, <1>4, <2>4 DEF Exact, Even
<1>15. ASSUME q # Null PROVE Off(u, q)
  <2>1. q \in M2
    BY <1>10, <1>15
  <2> DEFINE l == Height(t, A[q])
             r == Height(t, B[q])
  <2>2. /\ l \in Int /\ r \in Int /\ Above(t, q) = Taller(l, r) /\ Balance(t, q) = r - l
        /\ Height(t, n) = t.height[n] /\ t.height[n] \in Int
        /\ Above(t, n) = Taller(Height(t, A[n]), Height(t, B[n]))
        /\ Balance(t, n) = Height(t, B[n]) - Height(t, A[n])
    BY <1>1, <2>1, HeightsAreNumbers DEF Sides, A, B
  <2>3. u.height[q] = Taller(l, r) /\ l - r \in -1..1
    <3>1. Exact(t, q) /\ Even(t, q)
      BY <1>1, <2>1
    <3> QED
      BY <1>4, <2>2, <3>1 DEF Exact, Even
  <2>4. Height(t, c) \in Int /\ Height(t, c) >= -1 /\ t.height[n] = Height(t, c) + 1
    <3>1. Exact(t, n) /\ Even(t, n)
      BY <1>1
    <3>2. Height(t, Null) = -1
      BY DEF Height
    <3>3. Height(t, c) \in Int /\ Height(t, c) >= -1
      <4>1. c \in M => Height(t, c) = t.height[c] /\ t.height[c] \in Int /\ t.height[c] >= 0
        BY <1>1, HeightsAreNumbers DEF Sides
      <4> QED
        BY <1>8, <3>2, <4>1
    <3>4. t.height[n] = Taller(Height(t, A[n]), Height(t, B[n]))
      BY <2>2, <3>1 DEF Exact
    <3>5. CASE A[n] = Null /\ c = B[n]
      BY <3>2, <3>3, <3>4, <3>5 DEF Taller
    <3>6. CASE B[n] = Null /\ c = A[n]
      BY <3>2, <3>3, <3>4, <3>6 DEF Taller
    <3> QED
      BY <1>7, <3>5, <3>6
  <2>5. /\ A2[q] = IF A[q] = n THEN c ELSE A[q]
        /\ B2[q] = IF B[q] = n THEN c ELSE B[q]
        /\ A[q] \in M \cup {Null} /\ B[q] \in M \cup {Null} /\ c \in M \cup {Null}
    BY <1>4, <1>6, <1>8, <2>1
  <2>6. CASE A[q] = n /\ B[q] # n
    <3>1. Height(u, u.left[q]) = Height(t, c) /\ Height(u, u.right[q]) = r /\ l = t.height[n]
      BY <1>13, <2>2, <2>5, <2>6 DEF A2, B2
    <3>2. l - Height(u, u.left[q]) \in -1..1
      BY <2>4, <3>1
    <3> HIDE DEF l, r
    <3> QED
      BY <2>2, <2>3, <3>1, <3>2 DEF Off
  <2>7. CASE B[q] = n /\ A[q] # n
    <3>1. Height(u, u.right[q]) = Height(t, c) /\ Height(u, u.left[q]) = l /\ r = t.height[n]
      BY <1>13, <2>2, <2>5, <2>7 DEF A2, B2
    <3>2. r - Height(u, u.right[q]) \in -1..1
      BY <2>4, <3>1
    <3> HIDE DEF l, r
    <3> QED
      BY <2>2, <2>3, <3>1, <3>2 DEF Off
  <2> QED
    BY <1>10, <1>15, <2>6, <2>7
<1>16. Near(u, M2, d2, q)
  <2>1. q \in M2 \cup {Null}
    BY <1>10
  <2> QED
    BY <1>1, <1>4, <1>12, <1>14, <1>15, <2>1 DEF Near
<1> QED
  BY <1>9, <1>16 DEF q, d2, P2, P

\* What the fields of the node contain after it was taken out does not matter.
LEMMA ReleaseKeeps ==
  ASSUME NEW t, NEW M, NEW d, Near(t, M, d, Null), NEW n \in Nodes, n \notin M
  PROVE  Near(Released(t, n), M, d, Null)
<1> DEFINE bare == [t EXCEPT !.left[n] = Null, !.right[n] = Null]
           hung == [bare EXCEPT !.parent[n] = Null]
           u    == [hung EXCEPT !.height[n] = 0]
<1>1. Sound(t, M, d)
  BY DEF Near
<1>2. t \in Trees /\ M \subseteq Nodes /\ Null \in Pointers
  BY <1>1, SoundFrom DEF Sides, Pointers
<1>3. Released(t, n) = t \/ Released(t, n) = u
  BY DEF Released
<1>4. Alike(t, u, M)
  <2>1. /\ bare \in Trees /\ bare.returned = t.returned /\ bare.root = t.root
        /\ bare.left = [t.left EXCEPT ![n] = Null] /\ bare.right = [t.right EXCEPT ![n] = Null]
        /\ bare.parent = t.parent /\ bare.height = t.height
    BY <1>2 DEF Trees
  <2> HIDE DEF bare
  <2>2. /\ hung \in Trees /\ hung.returned = bare.returned /\ hung.root = bare.root
        /\ hung.left = bare.left /\ hung.right = bare.right
        /\ hung.parent = [bare.parent EXCEPT ![n] = Null] /\ hung.height = bare.height
    BY <1>2, <2>1 DEF Trees
  <2> HIDE DEF hung
  <2>3. /\ u \in Trees /\ u.returned = hung.returned /\ u.root = hung.root
        /\ u.left = hung.left /\ u.right = hung.right
        /\ u.parent = hung.parent /\ u.height = [hung.height EXCEPT ![n] = 0]
    BY <2>2 DEF Trees
  <2> HIDE DEF u
  <2>4. \A m \in M : m # n /\ m \in Nodes
    BY <1>2
  <2>5. \A m \in M : /\ u.left[m] = t.left[m] /\ u.right[m] = t.right[m]
                     /\ u.parent[m] = t.parent[m] /\ u.height[m] = t.height[m]
    BY <1>2, <2>1, <2>2, <2>3, <2>4 DEF Trees
  <2> QED
    BY <1>2, <2>1, <2>2, <2>3, <2>5 DEF Alike
<1> HIDE DEF u
<1> QED
  BY <1>3, <1>4, AlikeNear

-----------------------------------------------------------------------------
(* The smallest and the greatest key *)

LEMMA SearchedFrom ==
  ASSUME NEW t, NEW M, NEW d, Searched(t, M, d), NEW side \in Sides
  PROVE  /\ t \in Trees /\ M \subseteq Nodes /\ Null \notin M
         /\ Ordered(t[side], t[Opposite(side)], KeyFrom(side), M, d)
         /\ Rooted(t.root, M, d)
         /\ \A m \in M : KeyFrom(side)[m] = IF side = "left" THEN KeyOf[m] ELSE -KeyOf[m]
<1>1. /\ t \in Trees /\ Ordered(t.left, t.right, KeyOf, M, d) /\ Rooted(t.root, M, d)
  BY DEF Searched
<1>2. M \subseteq Nodes /\ Null \notin M
  BY <1>1, TreeAssumption DEF Ordered
<1>3. KeyOf \in [Nodes -> Int] /\ KeyFrom(side) \in [Nodes -> Int]
  BY TreeAssumption DEF KeyFrom
<1>4. \A m \in Nodes : KeyFrom(side)[m] = IF side = "left" THEN KeyOf[m] ELSE -KeyOf[m]
  BY DEF KeyFrom
<1>5. Ordered(t[side], t[Opposite(side)], KeyFrom(side), M, d)
  <2>1. CASE side = "left"
    <3>1. KeyFrom(side) = KeyOf
      BY <1>3, <2>1 DEF KeyFrom
    <3>2. t[side] = t.left /\ t[Opposite(side)] = t.right
      BY <1>1, <2>1 DEF Trees, Opposite
    <3> QED
      BY <1>1, <3>1, <3>2
  <2>2. CASE side = "right"
    <3>1. t[side] = t.right /\ t[Opposite(side)] = t.left
      BY <1>1, <2>2 DEF Trees, Opposite
    <3>2. \A m \in M : KeyFrom(side)[m] = -KeyOf[m]
      BY <1>2, <1>4, <2>2
    <3>3. Ordered(t.right, t.left, KeyFrom(side), M, d)
      BY <1>1, <1>3, <3>2, Mirrored
    <3> QED
      BY <3>1, <3>3
  <2> QED
    BY <2>1, <2>2 DEF Sides
<1> QED
  BY <1>1, <1>2, <1>4, <1>5

\* The recursive function of Outermost().
Lasts(t, side, last) ==
    last = [ref \in NodeRefs(t) |->
              LET n == Get(t, ref)
              IN  IF t[side][n] = Null THEN ref ELSE last[Ref(n, side)]]

LEMMA LastExists ==
  ASSUME NEW t \in Trees, NEW side \in Sides
  PROVE  \E last : Lasts(t, side, last)
<1> DEFINE R     == NodeRefs(t)
           stops == {ref \in R : t[side][Get(t, ref)] = Null}
           ends  == [ref \in R |-> ref]
           succ  == [ref \in R |-> IF ref \in stops THEN ref ELSE Ref(Get(t, ref), side)]
<1>1. ASSUME NEW ref \in R, ref \notin stops PROVE Ref(Get(t, ref), side) \in R
  <2>1. Get(t, ref) \in Nodes
    BY PointersOf DEF Pointers, NodeRefs
  <2> QED
    BY <1>1, <2>1, PointersOf DEF NodeRefs
<1>2. Follows(R, R, ends, succ)
  BY <1>1 DEF Follows, SelfMaps
<1> HIDE DEF ends, succ, stops, R
<1>3. PICK g : Arrives(R, R, stops, ends, succ, g)
  BY <1>2, TailRecursion
<1>4. g \in [R -> R] /\ \A ref \in R : g[ref] = IF ref \in stops THEN ref ELSE g[Ref(Get(t, ref), side)]
  BY <1>3 DEF Arrives, ends, succ
<1>5. g = [ref \in R |-> IF t[side][Get(t, ref)] = Null THEN ref ELSE g[Ref(Get(t, ref), side)]]
  BY <1>4 DEF stops
<1> QED
  BY <1>5 DEF Lasts, R

\* The walk from "top" down its outer edge.
OnEdge(t, M, d, top, ref, side) ==
    /\ LeadsTo(t, M, ref, Get(t, ref)) /\ d[Get(t, ref)] \subseteq d[top]
    /\ \A m \in d[top] : m \notin d[Get(t, ref)] =>
          \A j \in d[Get(t, ref)] : KeyFrom(side)[j] < KeyFrom(side)[m]

LEMMA EdgeStep ==
  ASSUME NEW t, NEW M, NEW d, Searched(t, M, d), NEW side \in Sides, NEW top \in M,
         NEW ref, OnEdge(t, M, d, top, ref, side),
         NEW n, n = Get(t, ref), t[side][n] # Null, NEW next, next = Ref(n, side)
  PROVE  /\ OnEdge(t, M, d, top, next, side) /\ n \in M
         /\ d[Get(t, next)] \subseteq d[n] /\ n \notin d[Get(t, next)] /\ n \in d[n]
<1> DEFINE A == t[side]
           B == t[Opposite(side)]
           K == KeyFrom(side)
<1>1. Ordered(A, B, K, M, d) /\ t \in Trees /\ M \subseteq Nodes /\ Null \notin M
  BY SearchedFrom
<1>2. n \in M /\ d[n] \subseteq d[top]
  BY DEF OnEdge, LeadsTo
<1>3. next \in Refs /\ next # RootRef /\ next.node = n /\ Get(t, next) = A[n]
  BY <1>1, <1>2, PointersOf
<1>4. \A m \in d[top] : m \notin d[n] => \A j \in d[n] : K[j] < K[m]
  BY DEF OnEdge
<1>5. A[n] # Null
  OBVIOUS
<1> HIDE DEF A, B, K
<1>6. /\ A[n] \in M /\ B[n] \in M \cup {Null}
      /\ d[n] = {n} \cup d[A[n]] \cup Below(d, B[n])
      /\ \A j \in d[A[n]] : K[j] < K[n]
      /\ \A m \in Below(d, B[n]) : K[m] > K[n]
  BY <1>1, <1>2, <1>5 DEF Ordered, Below
<1>7. n \notin d[A[n]] /\ n \in d[n] /\ d[n] \subseteq M
  <2>1. n \notin Below(d, A[n]) /\ n \in d[n] /\ d[n] \subseteq M
    BY <1>1, <1>2, SidesApart
  <2> QED
    BY <1>5, <2>1 DEF Below
<1>8. \A m \in M : K[m] \in Int
  BY <1>1 DEF Ordered
<1>9. ASSUME NEW m \in d[top], m \notin d[A[n]], NEW j \in d[A[n]]
      PROVE  K[j] < K[m]
  <2>1. j \in d[n] /\ K[j] < K[n] /\ K[j] \in Int /\ K[n] \in Int
    BY <1>2, <1>6, <1>7, <1>8
  <2>2. CASE m \notin d[n]
    BY <1>4, <2>1, <2>2
  <2>3. CASE m = n
    BY <2>1, <2>3
  <2>4. CASE m \in Below(d, B[n])
    <3>1. K[m] > K[n] /\ m \in d[n]
      BY <1>6, <2>4
    <3>2. K[m] \in Int
      BY <1>7, <1>8, <3>1
    <3> QED
      BY <2>1, <3>1, <3>2
  <2> QED
    BY <1>6, <1>9, <2>2, <2>3, <2>4
<1>10. LeadsTo(t, M, next, A[n])
  BY <1>2, <1>3, <1>6 DEF LeadsTo
<1>11. OnEdge(t, M, d, top, next, side)
  BY <1>2, <1>3, <1>6, <1>9, <1>10 DEF OnEdge, K
<1> QED
  BY <1>2, <1>3, <1>6, <1>7, <1>11

\* The pointer leads to the node with the smallest key below "top", seen from "side".
Extreme(t, M, d, top, ref, side) ==
    LET n == Get(t, ref)
    IN  /\ LeadsTo(t, M, ref, n) /\ n \in d[top] /\ t[side][n] = Null
        /\ \A m \in d[top] : m # n => KeyFrom(side)[n] < KeyFrom(side)[m]

LEMMA OutermostIs ==
  ASSUME NEW t, NEW M, NEW d, Searched(t, M, d), NEW side \in Sides,
         NEW from, NEW top, LeadsTo(t, M, from, top)
  PROVE  Extreme(t, M, d, top, Outermost(t, from, side), side)
<1> DEFINE last == CHOOSE f : f = [ref \in NodeRefs(t) |->
              LET n == Get(t, ref)
              IN  IF t[side][n] = Null THEN ref ELSE f[Ref(n, side)]]
<1>1. Outermost(t, from, side) = last[from]
  BY DEF Outermost
<1>2. t \in Trees /\ M \subseteq Nodes /\ Null \notin M /\ top \in M /\ Get(t, from) = top
      /\ Ordered(t[side], t[Opposite(side)], KeyFrom(side), M, d)
  BY SearchedFrom DEF LeadsTo
<1>3. Lasts(t, side, last)
  BY <1>2, LastExists DEF Lasts
<1> HIDE DEF last
<1>4. \A ref \in NodeRefs(t) : LET n == Get(t, ref)
          IN last[ref] = IF t[side][n] = Null THEN ref ELSE last[Ref(n, side)]
  <2>1. last = [ref \in NodeRefs(t) |->
              LET n == Get(t, ref)
              IN  IF t[side][n] = Null THEN ref ELSE last[Ref(n, side)]]
    BY <1>3 DEF Lasts
  <2> QED
    BY <2>1, Zenon
<1>5. OnEdge(t, M, d, top, from, side)
  BY <1>2 DEF OnEdge
<1>6. ASSUME NEW m \in M
      PROVE  /\ m \in d[m] /\ d[m] \subseteq M
             /\ t[side][m] = Null =>
                  \A j \in d[m] : j # m => KeyFrom(side)[m] < KeyFrom(side)[j]
  <2> DEFINE A == t[side]
             B == t[Opposite(side)]
             K == KeyFrom(side)
  <2>1. Ordered(A, B, K, M, d)
    BY <1>2
  <2> HIDE DEF A, B, K
  <2>2. m \in d[m] /\ d[m] \subseteq M
    BY <2>1, SidesApart
  <2>3. /\ d[m] = {m} \cup Below(d, A[m]) \cup Below(d, B[m])
        /\ \A j \in Below(d, B[m]) : K[j] > K[m]
        /\ \A j \in M : K[j] \in Int
    BY <2>1 DEF Ordered
  <2>4. ASSUME A[m] = Null, NEW j \in d[m], j # m PROVE K[m] < K[j]
    <3>1. j \in Below(d, B[m])
      BY <2>3, <2>4 DEF Below
    <3>2. K[m] \in Int /\ K[j] \in Int
      BY <2>2, <2>3
    <3> QED
      BY <2>3, <3>1, <3>2
  <2> QED
    BY <2>2, <2>4 DEF A, K
<1> DEFINE bad == {ref \in Refs : /\ OnEdge(t, M, d, top, ref, side)
                                  /\ ~Extreme(t, M, d, top, last[ref], side)}
           U   == {d[Get(t, ref)] : ref \in bad}
<1>7. IsFiniteSet(M)
  BY <1>2, TreeAssumption, FS_Subset
<1>8. U \in SUBSET SUBSET M
  BY <1>6 DEF OnEdge, LeadsTo
<1>9. U = {}
  <2> SUFFICES ASSUME U # {} PROVE FALSE
    OBVIOUS
  <2> HIDE DEF U
  <2>1. PICK s \in U : \A v \in U : v \subseteq s => v = s
    BY <1>7, <1>8, SmallestSet
  <2>2. PICK ref \in bad : s = d[Get(t, ref)]
    BY <2>1 DEF U
  <2> DEFINE n == Get(t, ref)
             next == Ref(n, side)
  <2>3. /\ ref \in Refs /\ OnEdge(t, M, d, top, ref, side)
        /\ ~Extreme(t, M, d, top, last[ref], side)
    OBVIOUS
  <2>4. n \in M /\ LeadsTo(t, M, ref, n) /\ ref \in NodeRefs(t) /\ d[n] \subseteq d[top]
        /\ \A m \in d[top] : m \notin d[n] =>
              \A j \in d[n] : KeyFrom(side)[j] < KeyFrom(side)[m]
    BY <1>2, <2>3 DEF OnEdge, LeadsTo, NodeRefs
  <2>5. last[ref] = IF t[side][n] = Null THEN ref ELSE last[next]
    BY <1>4, <2>4
  <2> HIDE DEF n
  <2>6. t[side][n] # Null
    <3> SUFFICES ASSUME t[side][n] = Null PROVE FALSE
      OBVIOUS
    <3>1. last[ref] = ref /\ Get(t, ref) = n
      BY <2>5 DEF n
    <3>2. n \in d[top] /\ \A m \in d[top] : m # n => KeyFrom(side)[n] < KeyFrom(side)[m]
      BY <1>6, <2>4
    <3>3. Extreme(t, M, d, top, ref, side)
      BY <2>4, <3>1, <3>2 DEF Extreme
    <3> QED
      BY <2>3, <3>1, <3>3
  <2>7. /\ OnEdge(t, M, d, top, next, side)
        /\ d[Get(t, next)] \subseteq d[n] /\ n \notin d[Get(t, next)] /\ n \in d[n]
    BY <1>2, <2>3, <2>6, EdgeStep DEF n
  <2> HIDE DEF next
  <2>8. s = d[n]
    BY <2>2 DEF n
  <2>9. next \notin bad
    BY <2>1, <2>7, <2>8 DEF U
  <2>10. next \in Refs
    BY <2>7 DEF OnEdge, LeadsTo
  <2> QED
    BY <2>3, <2>5, <2>6, <2>7, <2>9, <2>10
<1> QED
  <2>1. from \notin bad /\ from \in Refs
    BY <1>9 DEF LeadsTo
  <2> QED
    BY <1>1, <1>5, <2>1

-----------------------------------------------------------------------------
(* Taking out of a balanced tree *)

Outer(t, n) == t.left[n] = Null \/ t.right[n] = Null

\* What an operation that takes n out makes of the tree.
TakenOut(t, ref, n) ==
    LET cut == TakeNode(t, ref) IN Released(Rebalance(cut, cut.parent[n]), n)

LEMMA TakeOuter ==
  ASSUME NEW t, NEW M, NEW d, Near(t, M, d, Null), NEW ref, NEW n, LeadsTo(t, M, ref, n),
         Outer(t, n)
  PROVE  \E d2 : Near(TakenOut(t, ref, n), M \ {n}, d2, Null)
<1> DEFINE c == IF t.left[n] # Null THEN t.left[n] ELSE t.right[n]
           cut == TakeNode(t, ref)
           up == cut.parent[n]
<1>1. Get(t, ref) = n /\ n \in M
  BY DEF LeadsTo
<1>2. cut = Splice(t, ref, c)
  BY <1>1 DEF TakeNode, Outer
<1>3. OnlyChild(t, n, c)
  BY DEF OnlyChild, Outer
<1>4. TakenOut(t, ref, n) = Released(Rebalance(cut, up), n)
  BY DEF TakenOut
<1> HIDE DEF c, cut
<1>5. Near(cut, M \ {n}, Without(d, M, n), up)
  BY <1>2, <1>3, SpliceNear
<1> HIDE DEF up
<1>6. PICK e : Near(Rebalance(cut, up), M \ {n}, e, Null)
  BY <1>5, RebalanceMends
<1>7. n \in Nodes
  <2>1. Sound(t, M, d)
    BY DEF Near
  <2> QED
    BY <1>1, <2>1, SoundFrom DEF Sides
<1>8. Near(Released(Rebalance(cut, up), n), M \ {n}, e, Null)
  BY <1>6, <1>7, ReleaseKeeps
<1> QED
  BY <1>4, <1>8

-----------------------------------------------------------------------------
(* Taking the root out over and over *)

\* The node "min" has taken the place of the root n.
Replaced(A, B, A2, B2, M, n, min) ==
    /\ A2[min] = A[n] /\ B2[min] = B[n]
    /\ \A m \in M : m # n /\ m # min => A2[m] = A[m] /\ B2[m] = B[m]

\* What is below the nodes then.
Promoted(d, M, n, min) ==
    [m \in M \ {n} |-> IF m = min THEN M \ {n} ELSE d[m] \ {min}]

\* "A" and "B" are the children once min was cut out below the root n.
LEMMA PromotedOrdered ==
  ASSUME NEW M, NEW A, NEW B, NEW K, NEW d, NEW n \in M, NEW min \in M, min # n,
         Ordered(A, B, K, M \ {min}, Without(d, M, min)),
         Rooted(n, M \ {min}, Without(d, M, min)),
         NEW A2, NEW B2, Replaced(A, B, A2, B2, M, n, min),
         \A m \in M : m # min => IF K[m] <= K[n] THEN K[m] < K[min] ELSE K[m] > K[min],
         K[min] \in Int, min \in Nodes
  PROVE  /\ Ordered(A2, B2, K, M \ {n}, Promoted(d, M, n, min))
         /\ Rooted(min, M \ {n}, Promoted(d, M, n, min))
<1> DEFINE M1 == M \ {min}
           e  == Without(d, M, min)
           M2 == M \ {n}
           d2 == Promoted(d, M, n, min)
<1>1. /\ M1 \subseteq Nodes /\ K \in [Nodes -> Int] /\ e \in [M1 -> SUBSET M1] /\ n \in M1
      /\ Null \notin M1 /\ Null \notin M /\ M2 \subseteq Nodes
  BY TreeAssumption DEF Ordered
<1>2. ASSUME NEW m \in M1
      PROVE  /\ A[m] \in M1 \cup {Null} /\ B[m] \in M1 \cup {Null}
             /\ e[m] = {m} \cup Below(e, A[m]) \cup Below(e, B[m])
             /\ \A j \in Below(e, A[m]) : K[j] < K[m]
             /\ \A j \in Below(e, B[m]) : K[j] > K[m]
  BY DEF Ordered
<1>3. \A m \in M1 : /\ n \notin Below(e, A[m]) /\ n \notin Below(e, B[m])
                    /\ A[m] # n /\ B[m] # n
  <2> SUFFICES ASSUME NEW m \in M1
               PROVE  /\ n \notin Below(e, A[m]) /\ n \notin Below(e, B[m])
                      /\ A[m] # n /\ B[m] # n
    OBVIOUS
  <2>1. A[m] # n /\ B[m] # n
    BY <1>1, OneParent
  <2>2. ASSUME NEW c \in M1, A[m] = c \/ B[m] = c, n \in e[c] PROVE FALSE
    <3>1. c \in e[n]
      BY <1>1 DEF Rooted, Below
    <3>2. c = n
      BY <1>1, <2>2, <3>1, BelowOnce
    <3> QED
      BY <2>1, <2>2, <3>2
  <2> QED
    BY <1>2, <2>1, <2>2 DEF Below
<1>4. e[n] = M1
  BY <1>1 DEF Rooted, Below
<1>5. /\ d2 \in [M2 -> SUBSET M2] /\ d2[min] = M2
      /\ \A m \in M2 : m # min => d2[m] = e[m]
  <2>1. \A m \in M1 : e[m] = d[m] \ {min}
    BY DEF Without
  <2>2. \A m \in M2 : m # min => m \in M1 /\ n \notin e[m]
    <3> SUFFICES ASSUME NEW m \in M1, m # n, n \in e[m] PROVE FALSE
      BY <1>1
    <3>1. m \in e[n]
      BY <1>4
    <3> QED
      BY <1>1, <3>1, BelowOnce
  <2> QED
    BY <1>1, <2>1, <2>2 DEF Promoted
<1> HIDE DEF d2, e
<1>6. ASSUME NEW j \in M1 \cup {Null}, j # n
      PROVE  j \in M2 \cup {Null} /\ Below(d2, j) = Below(e, j)
  BY <1>1, <1>5, <1>6 DEF Below
<1>7. ASSUME NEW m \in M2, m # min
      PROVE  /\ A2[m] \in M2 \cup {Null} /\ B2[m] \in M2 \cup {Null}
             /\ d2[m] = {m} \cup Below(d2, A2[m]) \cup Below(d2, B2[m])
             /\ \A j \in Below(d2, A2[m]) : K[j] < K[m]
             /\ \A j \in Below(d2, B2[m]) : K[j] > K[m]
  <2>1. A2[m] = A[m] /\ B2[m] = B[m]
    BY <1>7 DEF Replaced
  <2>2. /\ A2[m] \in M2 \cup {Null} /\ B2[m] \in M2 \cup {Null}
        /\ Below(d2, A2[m]) = Below(e, A[m]) /\ Below(d2, B2[m]) = Below(e, B[m])
    BY <1>2, <1>3, <1>6, <1>7, <2>1
  <2> QED
    BY <1>2, <1>5, <1>7, <2>2
<1>8. /\ A2[min] \in M2 \cup {Null} /\ B2[min] \in M2 \cup {Null}
      /\ d2[min] = {min} \cup Below(d2, A2[min]) \cup Below(d2, B2[min])
      /\ \A j \in Below(d2, A2[min]) : K[j] < K[min]
      /\ \A j \in Below(d2, B2[min]) : K[j] > K[min]
  <2>1. A2[min] = A[n] /\ B2[min] = B[n]
    BY DEF Replaced
  <2>2. /\ A2[min] \in M2 \cup {Null} /\ B2[min] \in M2 \cup {Null}
        /\ Below(d2, A2[min]) = Below(e, A[n]) /\ Below(d2, B2[min]) = Below(e, B[n])
    BY <1>1, <1>2, <1>3, <1>6, <2>1
  <2>3. /\ M1 = {n} \cup Below(e, A[n]) \cup Below(e, B[n])
        /\ n \notin Below(e, A[n]) /\ n \notin Below(e, B[n])
        /\ \A j \in Below(e, A[n]) : K[j] < K[n]
        /\ \A j \in Below(e, B[n]) : K[j] > K[n]
    BY <1>1, <1>2, <1>3, <1>4
  <2>4. M2 = {min} \cup Below(e, A[n]) \cup Below(e, B[n])
    BY <2>3
  <2>5. \A m \in M1 : K[m] \in Int
    BY <1>1
  <2>6. ASSUME NEW j \in Below(e, A[n]) PROVE K[j] < K[min]
    <3>1. j \in M1 /\ K[j] < K[n] /\ K[j] \in Int /\ K[n] \in Int
      BY <1>1, <2>3, <2>5
    <3>2. K[j] <= K[n]
      BY <3>1
    <3> QED
      BY <3>1, <3>2
  <2>7. ASSUME NEW j \in Below(e, B[n]) PROVE K[j] > K[min]
    <3>1. j \in M1 /\ K[j] > K[n] /\ K[j] \in Int /\ K[n] \in Int
      BY <1>1, <2>3, <2>5
    <3>2. ~(K[j] <= K[n])
      BY <3>1
    <3> QED
      BY <3>1, <3>2
  <2> QED
    BY <1>5, <2>2, <2>4, <2>6, <2>7
<1>9. Ordered(A2, B2, K, M2, d2)
  BY <1>1, <1>5, <1>7, <1>8 DEF Ordered
<1>10. Rooted(min, M2, d2)
  BY <1>1, <1>5 DEF Rooted, Below
<1> QED
  BY <1>9, <1>10 DEF d2

\* avltree_take() may be called for the root whatever its children are, and
\* leaves a search tree, if not one with the right parents.
LEMMA RootTaken ==
  ASSUME NEW t, NEW M, NEW d, Searched(t, M, d), t.root # Null
  PROVE  \E d2 : Searched(TakeNode(t, RootRef), M \ {t.root}, d2)
<1> DEFINE n == t.root
           u == TakeNode(t, RootRef)
<1>1. /\ t \in Trees /\ M \subseteq Nodes /\ Null \notin M
      /\ Ordered(t.left, t.right, KeyOf, M, d) /\ Rooted(t.root, M, d)
  BY SearchedFrom DEF Searched, Sides
<1>2. n \in M /\ d[n] = M
  BY <1>1 DEF Rooted, Below
<1>3. Get(t, RootRef) = n /\ LeadsTo(t, M, RootRef, n)
  BY <1>1, <1>2, PointersOf DEF LeadsTo
<1>4. CASE Outer(t, n)
  <2> DEFINE c == IF t.left[n] # Null THEN t.left[n] ELSE t.right[n]
  <2>1. OnlyChild(t, n, c) /\ u = Splice(t, RootRef, c)
    BY <1>3, <1>4 DEF OnlyChild, Outer, TakeNode
  <2> HIDE DEF c, u, n
  <2>2. Spliced(t, u, M, d, n, c)
    BY <1>3, <2>1, SpliceCuts
  <2>3. Searched(u, M \ {n}, Without(d, M, n))
    BY <2>2 DEF Spliced
  <2> QED
    BY <2>3 DEF u, n
<1>5. CASE ~Outer(t, n)
  <2> DEFINE from == Ref(n, "right")
             at   == Outermost(t, from, "left")
             min  == Get(t, at)
             c    == t.right[min]
             cut  == Splice(t, at, c)
             kids == [cut EXCEPT !.left[min] = cut.left[n], !.right[min] = cut.right[n]]
             hung == [kids EXCEPT !.parent[min] = cut.parent[n]]
             put  == [hung EXCEPT !.height[min] = cut.height[n]]
  <2>1. u = Set(put, RootRef, min)
    BY <1>3, <1>5 DEF TakeNode, Outer
  <2>2. t.left[n] # Null /\ t.right[n] # Null
    BY <1>5 DEF Outer
  <2>3. /\ t.left[n] \in M /\ t.right[n] \in M
        /\ M = {n} \cup d[t.left[n]] \cup d[t.right[n]]
        /\ \A j \in d[t.left[n]] : KeyOf[j] < KeyOf[n]
        /\ \A j \in d[t.right[n]] : KeyOf[j] > KeyOf[n]
    BY <1>1, <1>2, <2>2 DEF Ordered, Below
  <2>4. LeadsTo(t, M, from, t.right[n])
    <3>1. from \in Refs /\ from.node = n /\ Get(t, from) = t["right"][n]
      BY <1>1, <1>2, PointersOf DEF Sides
    <3>2. t["right"] = t.right
      OBVIOUS
    <3> QED
      BY <1>2, <2>3, <3>1, <3>2 DEF LeadsTo
  <2>5. Extreme(t, M, d, t.right[n], at, "left")
    BY <2>4, OutermostIs DEF Sides
  <2> HIDE DEF from, at
  <2>6. /\ LeadsTo(t, M, at, min) /\ min \in d[t.right[n]] /\ t.left[min] = Null
        /\ \A m \in d[t.right[n]] : m # min => KeyFrom("left")[min] < KeyFrom("left")[m]
    <3>1. t["left"] = t.left
      OBVIOUS
    <3> QED
      BY <2>5, <3>1 DEF Extreme
  <2>7. OnlyChild(t, min, c)
    BY <2>6 DEF OnlyChild
  <2> HIDE DEF min, c
  <2>8. Spliced(t, cut, M, d, min, c)
    BY <2>6, <2>7, SpliceCuts
  <2> HIDE DEF cut, n
  <2>9. /\ min \in M /\ min \in Nodes /\ n \in Nodes
        /\ \A m \in M : KeyOf[m] \in Int /\ KeyFrom("left")[m] = KeyOf[m]
    <3>1. min \in M
      BY <2>6 DEF LeadsTo
    <3>2. \A m \in M : KeyFrom("left")[m] = KeyOf[m]
      BY SearchedFrom DEF Sides
    <3> QED
      BY <1>1, <1>2, <3>1, <3>2, TreeAssumption
  <2>10. KeyOf[min] > KeyOf[n] /\ min # n
    <3>1. KeyOf[min] > KeyOf[n]
      BY <2>3, <2>6
    <3> QED
      BY <1>2, <2>9, <3>1
  <2>11. \A m \in M : m # min =>
            IF KeyOf[m] <= KeyOf[n] THEN KeyOf[m] < KeyOf[min] ELSE KeyOf[m] > KeyOf[min]
    <3> SUFFICES ASSUME NEW m \in M, m # min
                 PROVE  IF KeyOf[m] <= KeyOf[n] THEN KeyOf[m] < KeyOf[min]
                                                ELSE KeyOf[m] > KeyOf[min]
      OBVIOUS
    <3>1. KeyOf[m] \in Int /\ KeyOf[n] \in Int /\ KeyOf[min] \in Int
      BY <1>2, <2>9
    <3>2. CASE KeyOf[m] <= KeyOf[n]
      BY <2>10, <3>1, <3>2
    <3>3. CASE ~(KeyOf[m] <= KeyOf[n])
      <4>1. m \in d[t.right[n]]
        BY <2>3, <3>1, <3>3
      <4>2. KeyFrom("left")[min] < KeyFrom("left")[m]
        BY <2>6, <4>1
      <4> QED
        BY <2>9, <3>3, <4>2
    <3> QED
      BY <3>2, <3>3
  <2>12. /\ Searched(cut, M \ {min}, Without(d, M, min)) /\ cut.root = n
    <3>1. /\ Searched(cut, M \ {min}, Without(d, M, min))
          /\ cut.root = IF t.root = min THEN c ELSE t.root
      BY <2>8 DEF Spliced, Cut
    <3> QED
      BY <2>10, <3>1 DEF n
  <2>13. /\ cut \in Trees /\ Ordered(cut.left, cut.right, KeyOf, M \ {min}, Without(d, M, min))
         /\ Rooted(n, M \ {min}, Without(d, M, min))
    BY <2>12 DEF Searched
  <2>14. /\ put \in Trees
         /\ put.left = [cut.left EXCEPT ![min] = cut.left[n]]
         /\ put.right = [cut.right EXCEPT ![min] = cut.right[n]]
    <3> DEFINE l == cut.left[n]
               r == cut.right[n]
               p == cut.parent[n]
               h == cut.height[n]
    <3>1. l \in Pointers /\ r \in Pointers /\ p \in Pointers /\ h \in Int
      BY <2>9, <2>13 DEF Trees
    <3>2. /\ kids = [cut EXCEPT !.left[min] = l, !.right[min] = r]
          /\ hung = [kids EXCEPT !.parent[min] = p]
          /\ put = [hung EXCEPT !.height[min] = h]
      OBVIOUS
    <3> HIDE DEF l, r, p, h, kids, hung, put
    <3>3. /\ kids \in Trees /\ kids.left = [cut.left EXCEPT ![min] = l]
          /\ kids.right = [cut.right EXCEPT ![min] = r]
      BY <2>9, <2>13, <3>1, <3>2 DEF Trees
    <3>4. hung \in Trees /\ hung.left = kids.left /\ hung.right = kids.right
      BY <2>9, <3>1, <3>2, <3>3 DEF Trees
    <3>5. put \in Trees /\ put.left = hung.left /\ put.right = hung.right
      BY <2>9, <3>1, <3>2, <3>4 DEF Trees
    <3> QED
      BY <3>3, <3>4, <3>5 DEF l, r
  <2> HIDE DEF put, u
  <2>15. /\ u \in Trees /\ u.root = min /\ u.left = put.left /\ u.right = put.right
    <3>1. u = [put EXCEPT !.root = min]
      BY <2>1 DEF Set
    <3> QED
      BY <2>9, <2>14, <3>1 DEF Trees, Pointers
  <2>16. Replaced(cut.left, cut.right, u.left, u.right, M, n, min)
    BY <1>1, <2>9, <2>13, <2>14, <2>15 DEF Replaced, Trees
  <2> DEFINE A == cut.left
             B == cut.right
             A2 == u.left
             B2 == u.right
  <2>17. /\ Ordered(A, B, KeyOf, M \ {min}, Without(d, M, min))
         /\ Replaced(A, B, A2, B2, M, n, min)
    BY <2>13, <2>16
  <2> HIDE DEF A, B, A2, B2
  <2>18. /\ Ordered(A2, B2, KeyOf, M \ {n}, Promoted(d, M, n, min))
         /\ Rooted(min, M \ {n}, Promoted(d, M, n, min))
    BY <1>2, <2>9, <2>10, <2>11, <2>13, <2>17, PromotedOrdered
  <2>19. Searched(u, M \ {n}, Promoted(d, M, n, min))
    BY <2>15, <2>18 DEF Searched, A2, B2
  <2> QED
    BY <2>19 DEF u, n
<1> QED
  BY <1>4, <1>5

\* The recursive function of Drained(), and one turn of its loop.
Drain(s) == IF s.tree.root = Null THEN s
            ELSE [tree |-> TakeNode(s.tree, RootRef), deleted |-> s.deleted \cup {s.tree.root}]

Drains(t, drain) ==
    drain = [i \in Nat |->
               IF i = 0 THEN [tree |-> t, deleted |-> {}]
               ELSE LET s == drain[i - 1]
                    IN  IF s.tree.root = Null THEN s
                        ELSE [tree    |-> TakeNode(s.tree, RootRef),
                              deleted |-> s.deleted \cup {s.tree.root}]]

\* The nodes that are left are a search tree.
Draining(s, M) ==
    /\ s.deleted \subseteq M
    /\ \E d : Searched(s.tree, M \ s.deleted, d)

LEMMA DrainStep ==
  ASSUME NEW s, NEW M, Draining(s, M)
  PROVE  /\ Draining(Drain(s), M)
         /\ s.tree.root = Null => s.deleted = M
         /\ s.tree.root # Null => /\ s.tree.root \in M \ s.deleted
                                  /\ Drain(s).deleted = s.deleted \cup {s.tree.root}
<1> DEFINE n == s.tree.root
           rest == M \ s.deleted
<1>1. PICK d : Searched(s.tree, rest, d)
  BY DEF Draining
<1>2. n \in rest \cup {Null} /\ Below(d, n) = rest
  BY <1>1 DEF Searched, Rooted
<1>3. CASE n = Null
  <2>1. rest = {}
    BY <1>2, <1>3 DEF Below
  <2> QED
    BY <1>3, <2>1 DEF Drain, Draining
<1>4. CASE n # Null
  <2>1. PICK d2 : Searched(TakeNode(s.tree, RootRef), rest \ {n}, d2)
    BY <1>1, <1>4, RootTaken
  <2>2. /\ Drain(s).tree = TakeNode(s.tree, RootRef) /\ Drain(s).deleted = s.deleted \cup {n}
    BY <1>4 DEF Drain
  <2>3. rest \ {n} = M \ Drain(s).deleted
    BY <2>2
  <2>4. Draining(Drain(s), M)
    BY <1>2, <1>4, <2>1, <2>2, <2>3 DEF Draining
  <2> QED
    BY <1>2, <1>4, <2>2, <2>4
<1> QED
  BY <1>3, <1>4

LEMMA DrainExists ==
  ASSUME NEW t, NEW M, NEW d, Searched(t, M, d)
  PROVE  \E drain : Drains(t, drain)
<1> DEFINE s0   == [tree |-> t, deleted |-> {}]
           X    == {s \in [tree : Trees, deleted : SUBSET M] : Draining(s, M)}
           step == [s \in X |-> Drain(s)]
<1>1. s0 \in X
  <2>1. M \ {} = M /\ t \in Trees
    BY DEF Searched
  <2> QED
    BY <2>1 DEF Draining
<1>2. step \in SelfMaps(X)
  <2> SUFFICES ASSUME NEW s \in X PROVE Drain(s) \in X
    BY DEF SelfMaps
  <2>1. Draining(Drain(s), M)
    BY DrainStep
  <2>2. Drain(s).tree \in Trees /\ Drain(s).deleted \subseteq M
    BY <2>1 DEF Draining, Searched
  <2>3. Drain(s) = [tree |-> Drain(s).tree, deleted |-> Drain(s).deleted]
    BY DEF Drain
  <2> QED
    BY <2>1, <2>2, <2>3
<1> HIDE DEF s0, X
<1>3. PICK f : f \in [Nat -> X] /\ f[0] = s0 /\ \A n \in Nat : f[n + 1] = step[f[n]]
  <2> HIDE DEF step
  <2>1. \E f : Iterates(X, s0, step, f)
    BY <1>1, <1>2, NumberRecursion
  <2> QED
    BY <2>1 DEF Iterates
<1>4. \A i \in Nat : f[i] = IF i = 0 THEN s0 ELSE Drain(f[i - 1])
  <2> SUFFICES ASSUME NEW i \in Nat, i # 0 PROVE f[i] = Drain(f[i - 1])
    BY <1>3
  <2>1. i - 1 \in Nat /\ (i - 1) + 1 = i
    OBVIOUS
  <2>2. f[(i - 1) + 1] = step[f[i - 1]] /\ f[i - 1] \in X
    BY <1>3, <2>1
  <2>3. step[f[i - 1]] = Drain(f[i - 1])
    BY <2>2
  <2> HIDE DEF step
  <2> QED
    BY <2>1, <2>2, <2>3
<1>5. f = [i \in Nat |-> IF i = 0 THEN s0 ELSE Drain(f[i - 1])]
  BY <1>3, <1>4
<1> QED
  BY <1>5 DEF Drains, Drain, s0

\* avltree_destroy() reaches every node.
LEMMA DrainedAll ==
  ASSUME NEW t, NEW M, NEW d, Searched(t, M, d)
  PROVE  Drained(t).deleted = M /\ Drained(t).tree.root = Null
<1> DEFINE drain == CHOOSE f : f =
              [i \in Nat |->
               IF i = 0 THEN [tree |-> t, deleted |-> {}]
               ELSE LET s == f[i - 1]
                    IN  IF s.tree.root = Null THEN s
                        ELSE [tree    |-> TakeNode(s.tree, RootRef),
                              deleted |-> s.deleted \cup {s.tree.root}]]
           N == Cardinality(Nodes)
<1>1. Drained(t) = drain[N]
  BY DEF Drained
<1>2. Drains(t, drain)
  <2>1. PICK w : Drains(t, w)
    BY DrainExists
  <2>2. drain = CHOOSE f : Drains(t, f)
    BY DEF Drains
  <2> HIDE DEF drain
  <2> QED
    BY <2>1, <2>2, Zenon
<1> HIDE DEF drain
<1>3. drain[0] = [tree |-> t, deleted |-> {}] /\ \A i \in Nat : drain[i + 1] = Drain(drain[i])
  <2>1. drain = [i \in Nat |-> IF i = 0 THEN [tree |-> t, deleted |-> {}] ELSE Drain(drain[i - 1])]
    BY <1>2 DEF Drains, Drain
  <2>2. drain[0] = [tree |-> t, deleted |-> {}]
    BY <2>1
  <2>3. ASSUME NEW i \in Nat PROVE drain[i + 1] = Drain(drain[i])
    <3>1. i + 1 \in Nat /\ i + 1 # 0 /\ (i + 1) - 1 = i
      OBVIOUS
    <3>2. drain[i + 1] = IF i + 1 = 0 THEN [tree |-> t, deleted |-> {}] ELSE Drain(drain[(i + 1) - 1])
      BY <2>1, <3>1
    <3> QED
      BY <3>1, <3>2
  <2> QED
    BY <2>2, <2>3
<1>4. M \subseteq Nodes /\ IsFiniteSet(M) /\ N \in Nat /\ Null \notin M
  <2>1. M \subseteq Nodes /\ Null \notin M
    BY SearchedFrom DEF Sides
  <2> QED
    BY <2>1, TreeAssumption, FS_Subset, FS_CardinalityType
<1> HIDE DEF N
<1> DEFINE Rest(i) == M \ drain[i].deleted
           Done(i) == /\ Draining(drain[i], M)
                      /\ Rest(i) = {} \/ Cardinality(Rest(i)) + i <= N
           S == {i \in Nat : Done(i)}
<1>5. 0 \in S
  <2>1. drain[0].tree = t /\ Rest(0) = M
    BY <1>3
  <2>2. Draining(drain[0], M)
    BY <1>3, <2>1 DEF Draining
  <2>3. Cardinality(M) <= N /\ Cardinality(M) \in Nat
    BY <1>4, TreeAssumption, FS_Subset, FS_CardinalityType DEF N
  <2>4. Cardinality(Rest(0)) = Cardinality(M)
    BY <2>1
  <2>5. Cardinality(Rest(0)) + 0 <= N
    BY <1>4, <2>3, <2>4
  <2> QED
    BY <2>2, <2>5
<1>6. ASSUME NEW i \in Nat, i \in S PROVE i + 1 \in S
  <2>1. Draining(drain[i], M) /\ (Rest(i) = {} \/ Cardinality(Rest(i)) + i <= N)
    BY <1>6
  <2> DEFINE s == drain[i]
             n == s.tree.root
  <2>2. drain[i + 1] = Drain(s)
    BY <1>3
  <2> HIDE DEF s
  <2>3. /\ Draining(Drain(s), M)
        /\ n = Null => s.deleted = M
        /\ n # Null => n \in M \ s.deleted /\ Drain(s).deleted = s.deleted \cup {n}
    BY <2>1, DrainStep DEF s
  <2>4. CASE n = Null
    <3>1. Drain(s) = s /\ Rest(i) = {}
      BY <2>3, <2>4 DEF Drain, s
    <3>2. Rest(i + 1) = {}
      BY <2>2, <3>1 DEF s
    <3> QED
      BY <2>2, <2>3, <3>2
  <2>5. CASE n # Null
    <3>1. n \in Rest(i) /\ Rest(i + 1) = Rest(i) \ {n}
      BY <2>2, <2>3, <2>5 DEF s
    <3>2. IsFiniteSet(Rest(i)) /\ Cardinality(Rest(i)) \in Nat
      BY <1>4, FS_Subset, FS_CardinalityType
    <3> DEFINE R == Rest(i)
               Q == Rest(i + 1)
    <3>3. n \in R /\ Q = R \ {n} /\ IsFiniteSet(R) /\ Cardinality(R) \in Nat /\ Cardinality(R) + i <= N
      BY <2>1, <3>1, <3>2
    <3> HIDE DEF R, Q
    <3>4. Cardinality(Q) = Cardinality(R) - 1
      BY <3>3, FS_RemoveElement
    <3>5. Cardinality(Q) + (i + 1) <= N
      BY <1>4, <3>3, <3>4
    <3>6. Draining(drain[i + 1], M) /\ Cardinality(Rest(i + 1)) + (i + 1) <= N
      BY <2>2, <2>3, <3>5 DEF Q
    <3> QED
      BY <3>6
  <2> QED
    BY <2>4, <2>5
<1>7. N \in S
  <2> HIDE DEF S
  <2> QED
    BY <1>4, <1>5, <1>6, NumberInduction
<1>8. Rest(N) = {}
  <2> SUFFICES ASSUME Cardinality(Rest(N)) + N <= N PROVE Rest(N) = {}
    BY <1>7
  <2> DEFINE R == Rest(N)
  <2>1. IsFiniteSet(R)
    BY <1>4, FS_Subset
  <2>2. Cardinality(R) + N <= N
    OBVIOUS
  <2> HIDE DEF R, Rest
  <2>3. Cardinality(R) \in Nat
    BY <2>1, FS_CardinalityType
  <2>4. Cardinality(R) = 0
    BY <1>4, <2>2, <2>3
  <2>5. R = {}
    BY <2>1, <2>4, FS_EmptySet
  <2> QED
    BY <2>5 DEF R
<1>9. Draining(drain[N], M)
  BY <1>7
<1>10. drain[N].deleted = M
  BY <1>8, <1>9 DEF Draining
<1>11. drain[N].tree.root = Null
  <2>1. PICK e : Searched(drain[N].tree, M \ drain[N].deleted, e)
    BY <1>9 DEF Draining
  <2> QED
    BY <1>10, <2>1 DEF Searched, Rooted
<1> QED
  BY <1>1, <1>10, <1>11

-----------------------------------------------------------------------------
(* The invariant *)

\* The tree is a balanced search tree of the nodes that were inserted and not
\* taken out since, and every call has returned.
TreeInv ==
    /\ members \subseteq Nodes /\ size = Cardinality(members)
    /\ \E d : Near(tree, members, d, Null)

\* What Find() tells an operation about the key k.
PlaceOf(k) ==
    LET ref == Find(tree, k)
        n   == Get(tree, ref)
    IN  /\ n = Null => \A m \in members : KeyOf[m] # k
        /\ n # Null => LeadsTo(tree, members, ref, n) /\ KeyOf[n] = k

LEMMA FindTells ==
  ASSUME TreeInv, NEW k \in Int
  PROVE  PlaceOf(k)
<1> DEFINE ref == Find(tree, k)
           n   == Get(tree, ref)
<1>1. PICK d : Near(tree, members, d, Null)
  BY DEF TreeInv
<1>2. Sound(tree, members, d)
  BY <1>1 DEF Near
<1>3. Found(tree, members, d, ref, k)
  BY <1>2, FindPlace
<1> HIDE DEF ref
<1>4. /\ ref \in Refs /\ Fits(tree, members, d, ref, k) /\ n \in members \cup {Null}
      /\ \A m \in members : KeyOf[m] = k => m \in Below(d, n)
      /\ n # Null => KeyOf[n] = k
  BY <1>3 DEF Found, OnTheWay
<1>5. ref # RootRef => ref.node \in members
  BY <1>4 DEF Fits
<1> QED
  BY <1>4, <1>5 DEF PlaceOf, LeadsTo, Below, ref

\* What avltree_take_min() and avltree_take_max() find.
EdgeOf(side) ==
    LET ref == Outermost(tree, RootRef, side)
        n   == Get(tree, ref)
    IN  IF tree.root = Null THEN members = {}
        ELSE /\ LeadsTo(tree, members, ref, n) /\ Outer(tree, n)
             /\ \A m \in members : m # n => IF side = "left" THEN KeyOf[n] < KeyOf[m]
                                                            ELSE KeyOf[n] > KeyOf[m]

LEMMA OutermostTells ==
  ASSUME TreeInv, NEW side \in Sides
  PROVE  EdgeOf(side)
<1> DEFINE ref == Outermost(tree, RootRef, side)
           n   == Get(tree, ref)
<1>1. PICK d : Near(tree, members, d, Null)
  BY DEF TreeInv
<1>2. Searched(tree, members, d)
  BY <1>1 DEF Near, Sound, IsTree, Searched
<1>3. /\ tree \in Trees /\ members \subseteq Nodes /\ Rooted(tree.root, members, d)
      /\ \A m \in members : /\ KeyFrom(side)[m] = IF side = "left" THEN KeyOf[m] ELSE -KeyOf[m]
                            /\ KeyOf[m] \in Int
  BY <1>2, SearchedFrom, TreeAssumption
<1>4. CASE tree.root = Null
  BY <1>3, <1>4 DEF EdgeOf, Rooted, Below
<1>5. CASE tree.root # Null
  <2>1. tree.root \in members /\ d[tree.root] = members
    BY <1>3, <1>5 DEF Rooted, Below
  <2>2. LeadsTo(tree, members, RootRef, tree.root)
    BY <1>3, <2>1, PointersOf DEF LeadsTo
  <2>3. Extreme(tree, members, d, tree.root, ref, side)
    BY <1>2, <2>2, OutermostIs
  <2> HIDE DEF ref
  <2>4. /\ LeadsTo(tree, members, ref, n) /\ n \in members /\ tree[side][n] = Null
        /\ \A m \in members : m # n => KeyFrom(side)[n] < KeyFrom(side)[m]
    BY <2>1, <2>3 DEF Extreme
  <2> HIDE DEF n
  <2>5. Outer(tree, n)
    <3>1. tree["left"] = tree.left /\ tree["right"] = tree.right
      OBVIOUS
    <3> QED
      BY <2>4, <3>1 DEF Outer, Sides
  <2>6. \A m \in members : m # n => IF side = "left" THEN KeyOf[n] < KeyOf[m]
                                                    ELSE KeyOf[n] > KeyOf[m]
    <3> SUFFICES ASSUME NEW m \in members, m # n
                 PROVE  IF side = "left" THEN KeyOf[n] < KeyOf[m] ELSE KeyOf[n] > KeyOf[m]
      OBVIOUS
    <3>1. KeyFrom(side)[n] < KeyFrom(side)[m]
      BY <2>4
    <3>2. KeyOf[n] \in Int /\ KeyOf[m] \in Int
      BY <1>3, <2>4
    <3> QED
      BY <1>3, <2>4, <3>1, <3>2
  <2> QED
    BY <1>5, <2>4, <2>5, <2>6 DEF EdgeOf, n, ref
<1> QED
  BY <1>4, <1>5

\* At first the tree is empty.
LEMMA FreshIsNear ==
  \E d : Near(Fresh, {}, d, Null)
<1> DEFINE d == [m \in {} |-> {}]
<1>1. /\ Fresh \in Trees /\ Fresh.root = Null /\ Fresh.returned
  BY DEF Fresh, Trees, Pointers
<1>2. Ordered(Fresh.left, Fresh.right, KeyOf, {}, d)
  BY TreeAssumption DEF Ordered
<1>3. Linked(Fresh.left, Fresh.right, Fresh.parent, Fresh.root, {}) /\ Rooted(Fresh.root, {}, d)
  BY <1>1 DEF Linked, Rooted, Below
<1>4. Sound(Fresh, {}, d)
  BY <1>1, <1>2, <1>3 DEF Sound, IsTree
<1>5. Near(Fresh, {}, d, Null)
  BY <1>1, <1>4 DEF Near
<1> QED
  BY <1>5

LEMMA InitIsTree ==
  Init => TreeInv
BY FreshIsNear, FS_EmptySet DEF Init, TreeInv

LEMMA InsertKeeps ==
  ASSUME TreeInv, NEW n \in Nodes, Insert(n)
  PROVE  TreeInv' /\ OS!Insert(n)
<1> DEFINE ref == Find(tree, KeyOf[n])
           u   == Leafed(tree, n, ref)
<1>1. PICK d : Near(tree, members, d, Null)
  BY DEF TreeInv
<1>2. KeyOf[n] \in Int /\ members \subseteq Nodes /\ IsFiniteSet(members)
      /\ size = Cardinality(members)
  BY TreeAssumption, FS_Subset DEF TreeInv
<1>3. PlaceOf(KeyOf[n])
  BY <1>2, FindTells
<1>4. n \notin members
  BY DEF Insert
<1>5. CASE /\ Get(tree, ref) = Null
           /\ tree' = Rebalance(u, ref.node)
           /\ size' = size + 1
           /\ members' = members \cup {n}
           /\ result' = <<"insert", n, "OK">>
  <2>1. Sound(tree, members, d)
    BY <1>1 DEF Near
  <2>2. Found(tree, members, d, ref, KeyOf[n])
    BY <1>2, <2>1, FindPlace
  <2>3. OnTheWay(tree, members, d, ref, KeyOf[n])
    BY <2>2 DEF Found
  <2> HIDE DEF ref
  <2>4. \E d2 : Near(u, members \cup {n}, d2, ref.node)
    BY <1>1, <1>4, <1>5, <2>3, LeafNear
  <2> HIDE DEF u
  <2>5. \E d3 : Near(Rebalance(u, ref.node), members \cup {n}, d3, Null)
    BY <2>4, RebalanceMends
  <2>6. size' = Cardinality(members')
    BY <1>2, <1>4, <1>5, FS_AddElement
  <2>7. TreeInv'
    BY <1>2, <1>5, <2>5, <2>6 DEF TreeInv
  <2>8. ~\E o \in members : KeyOf[o] = KeyOf[n]
    BY <1>3, <1>5 DEF PlaceOf, ref
  <2>9. OS!Insert(n)
    BY <1>4, <1>5, <2>8 DEF OS!Insert
  <2> QED
    BY <2>7, <2>9
<1>6. CASE /\ Get(tree, ref) # Null
           /\ result' = <<"insert", n, "EINVAL">>
           /\ UNCHANGED <<tree, size, members>>
  <2>1. TreeInv'
    BY <1>6 DEF TreeInv
  <2>2. \E o \in members : KeyOf[o] = KeyOf[n]
    BY <1>3, <1>6 DEF PlaceOf, LeadsTo
  <2>3. OS!Insert(n)
    BY <1>4, <1>6, <2>2 DEF OS!Insert
  <2> QED
    BY <2>1, <2>3
<1> QED
  BY <1>5, <1>6 DEF Insert, Leafed

LEMMA TakesKeep ==
  ASSUME TreeInv, NEW ref, NEW n, LeadsTo(tree, members, ref, n), Outer(tree, n),
         NEW call, Takes(ref, call)
  PROVE  TreeInv' /\ OS!Removes(n, call) /\ n \in members
<1>1. PICK d : Near(tree, members, d, Null)
  BY DEF TreeInv
<1>2. Get(tree, ref) = n /\ n \in members
  BY DEF LeadsTo
<1>3. /\ tree' = TakenOut(tree, ref, n)
      /\ size' = size - 1 /\ members' = members \ {n} /\ result' = Append(call, n)
  BY <1>2 DEF Takes, TakenOut
<1>4. \E d2 : Near(TakenOut(tree, ref, n), members \ {n}, d2, Null)
  BY <1>1, TakeOuter
<1>5. size' = Cardinality(members')
  BY <1>2, <1>3, TreeAssumption, FS_Subset, FS_RemoveElement DEF TreeInv
<1>6. TreeInv'
  BY <1>3, <1>4, <1>5 DEF TreeInv
<1> QED
  BY <1>2, <1>3, <1>6 DEF OS!Removes

LEMMA TakeKeeps ==
  ASSUME TreeInv, OuterTakes, NEW k \in Int, Take(k)
  PROVE  TreeInv' /\ OS!Take(k)
<1> DEFINE ref == Find(tree, k)
           n   == Get(tree, ref)
<1>1. PlaceOf(k)
  BY FindTells
<1>2. CASE n # Null /\ (Inner(n) => InnerTakes) /\ Takes(ref, <<"take", k>>)
  <2>1. LeadsTo(tree, members, ref, n) /\ KeyOf[n] = k
    BY <1>1, <1>2 DEF PlaceOf
  <2>2. Outer(tree, n)
    BY <1>2 DEF Inner, Outer, OuterTakes
  <2> HIDE DEF ref, n
  <2>3. TreeInv' /\ OS!Removes(n, <<"take", k>>) /\ n \in members
    BY <1>2, <2>1, <2>2, TakesKeep
  <2> QED
    BY <2>1, <2>3 DEF OS!Take
<1>3. CASE n = Null /\ FindsNothing(<<"take", k>>)
  <2>1. \A m \in members : KeyOf[m] # k
    BY <1>1, <1>3 DEF PlaceOf
  <2>2. TreeInv' /\ OS!Absent(<<"take", k>>)
    BY <1>3 DEF FindsNothing, TreeInv, OS!Absent
  <2> QED
    BY <2>1, <2>2 DEF OS!Take
<1> QED
  BY <1>2, <1>3 DEF Take, Retrieve

LEMMA TakeMinKeeps ==
  ASSUME TreeInv, TakeMin
  PROVE  TreeInv' /\ OS!TakeMin
<1> DEFINE ref == Outermost(tree, RootRef, "left")
           n   == Get(tree, ref)
<1>1. EdgeOf("left")
  BY OutermostTells DEF Sides
<1>2. CASE tree.root # Null /\ Takes(ref, <<"take_min">>)
  <2>1. /\ LeadsTo(tree, members, ref, n) /\ Outer(tree, n)
        /\ \A m \in members : m # n => KeyOf[n] < KeyOf[m]
    BY <1>1, <1>2 DEF EdgeOf
  <2> HIDE DEF ref, n
  <2>2. TreeInv' /\ OS!Removes(n, <<"take_min">>) /\ n \in members
    BY <1>2, <2>1, TakesKeep
  <2>3. \A m \in members : KeyOf[m] \in Int
    BY TreeAssumption DEF TreeInv
  <2>4. \A m \in members : KeyOf[n] <= KeyOf[m]
    BY <2>1, <2>2, <2>3
  <2> QED
    BY <2>2, <2>4 DEF OS!TakeMin
<1>3. CASE tree.root = Null /\ FindsNothing(<<"take_min">>)
  <2>1. members = {}
    BY <1>1, <1>3 DEF EdgeOf
  <2>2. TreeInv' /\ OS!Absent(<<"take_min">>)
    BY <1>3 DEF FindsNothing, TreeInv, OS!Absent
  <2> QED
    BY <2>1, <2>2 DEF OS!TakeMin
<1> QED
  BY <1>2, <1>3 DEF TakeMin

LEMMA TakeMaxKeeps ==
  ASSUME TreeInv, TakeMax
  PROVE  TreeInv' /\ OS!TakeMax
<1> DEFINE ref == Outermost(tree, RootRef, "right")
           n   == Get(tree, ref)
<1>1. EdgeOf("right")
  BY OutermostTells DEF Sides
<1>2. CASE tree.root # Null /\ Takes(ref, <<"take_max">>)
  <2>1. /\ LeadsTo(tree, members, ref, n) /\ Outer(tree, n)
        /\ \A m \in members : m # n => KeyOf[n] > KeyOf[m]
    BY <1>1, <1>2 DEF EdgeOf
  <2> HIDE DEF ref, n
  <2>2. TreeInv' /\ OS!Removes(n, <<"take_max">>) /\ n \in members
    BY <1>2, <2>1, TakesKeep
  <2>3. \A m \in members : KeyOf[m] \in Int
    BY TreeAssumption DEF TreeInv
  <2>4. \A m \in members : KeyOf[n] >= KeyOf[m]
    BY <2>1, <2>2, <2>3
  <2> QED
    BY <2>2, <2>4 DEF OS!TakeMax
<1>3. CASE tree.root = Null /\ FindsNothing(<<"take_max">>)
  <2>1. members = {}
    BY <1>1, <1>3 DEF EdgeOf
  <2>2. TreeInv' /\ OS!Absent(<<"take_max">>)
    BY <1>3 DEF FindsNothing, TreeInv, OS!Absent
  <2> QED
    BY <2>1, <2>2 DEF OS!TakeMax
<1> QED
  BY <1>2, <1>3 DEF TakeMax

LEMMA DestroyKeeps ==
  ASSUME TreeInv, Destroy
  PROVE  TreeInv' /\ OS!Destroy
<1>1. PICK d : Near(tree, members, d, Null)
  BY DEF TreeInv
<1>2. Searched(tree, members, d)
  BY <1>1 DEF Near, Sound, IsTree, Searched
<1>3. Drained(tree).deleted = members /\ Drained(tree).tree.root = Null
  BY <1>2, DrainedAll
<1>4. members' = {} /\ size' = 0 /\ result' = <<"destroy">>
  BY <1>3 DEF Destroy
<1>5. tree' = Fresh
  <2>1. tree' = [Fresh EXCEPT !.returned = TRUE]
    BY <1>3 DEF Destroy
  <2> QED
    BY <2>1 DEF Fresh
<1>6. TreeInv'
  BY <1>4, <1>5, FreshIsNear, FS_EmptySet DEF TreeInv
<1> QED
  BY <1>4, <1>6 DEF OS!Destroy

\* Every step keeps the invariant, and is one of the ordered set.
LEMMA StepKeeps ==
  OuterTakes /\ TreeInv /\ [Next]_vars => TreeInv' /\ [OS!Next]_(OS!vars)
<1> SUFFICES ASSUME OuterTakes, TreeInv, [Next]_vars
             PROVE  TreeInv' /\ [OS!Next]_(OS!vars)
  OBVIOUS
<1>1. ASSUME NEW n \in Nodes, Insert(n) PROVE TreeInv' /\ OS!Next
  BY <1>1, InsertKeeps DEF OS!Next
<1>2. ASSUME NEW n \in Nodes, Take(KeyOf[n]) PROVE TreeInv' /\ OS!Next
  <2>1. KeyOf[n] \in Int
    BY TreeAssumption
  <2> QED
    BY <1>2, <2>1, TakeKeeps DEF OS!Next
<1>3. CASE TakeMin
  BY <1>3, TakeMinKeeps DEF OS!Next
<1>4. CASE TakeMax
  BY <1>4, TakeMaxKeeps DEF OS!Next
<1>5. CASE Destroy
  BY <1>5, DestroyKeeps DEF OS!Next
<1>6. CASE UNCHANGED vars
  BY <1>6 DEF vars, TreeInv, OS!vars
<1> QED
  BY <1>1, <1>2, <1>3, <1>4, <1>5, <1>6 DEF Next

-----------------------------------------------------------------------------
(* The theorems *)

\* While avltree_take() is called for nodes with at most one child, the tree is
\* a balanced search tree, with correct parent pointers, of the nodes that were
\* inserted and not taken out since.
THEOREM TreeIsSound ==
  ASSUME OuterTakes PROVE Spec => []TreeInv
<1>1. TreeInv /\ [Next]_vars => TreeInv'
  BY StepKeeps
<1> QED
  BY InitIsTree, <1>1, PTL DEF Spec

\* avltree_size() is the number of nodes the tree was given and has not given
\* back.
THEOREM TreeCountsMembers ==
  ASSUME OuterTakes PROVE Spec => []CountsMembers
<1>1. TreeInv => CountsMembers
  BY DEF TreeInv, CountsMembers
<1> QED
  BY TreeIsSound, <1>1, PTL

\* avltree_retrieve() finds every node that was inserted and not taken out, and
\* nothing else.
THEOREM TreeRetrievesMembers ==
  ASSUME OuterTakes PROVE Spec => []RetrievesMembers
<1>1. TreeInv => RetrievesMembers
  <2> SUFFICES ASSUME TreeInv, NEW n \in Nodes
               PROVE  LET found == Retrieve(tree, KeyOf[n])
                      IN  /\ found # Null => found \in members /\ KeyOf[found] = KeyOf[n]
                          /\ n \in members => found = n
    BY DEF RetrievesMembers
  <2>1. PICK d : Near(tree, members, d, Null)
    BY DEF TreeInv
  <2>2. Sound(tree, members, d) /\ KeyOf[n] \in Int
    BY <2>1, TreeAssumption DEF Near
  <2> QED
    BY <2>2, RetrieveFinds
<1> QED
  BY TreeIsSound, <1>1, PTL

\* The recorded heights are right and no node has one side more than one higher
\* than the other, so that an operation takes logarithmic time.
THEOREM TreeBalanced ==
  ASSUME OuterTakes PROVE Spec => []Balanced
<1>1. TreeInv => Balanced
  <2> SUFFICES ASSUME TreeInv, NEW n \in members
               PROVE  tree.height[n] = Above(tree, n) /\ Balance(tree, n) \in {-1, 0, 1}
    BY DEF Balanced
  <2>1. PICK d : Near(tree, members, d, Null)
    BY DEF TreeInv
  <2>2. n # Null
    BY TreeAssumption DEF TreeInv
  <2> QED
    BY <2>1, <2>2 DEF Near, Exact, Even
<1> QED
  BY TreeIsSound, <1>1, PTL

\* No walk along the parent pointers goes round in a circle, and
\* avltree_destroy() comes to an end.
THEOREM TreeCallsReturn ==
  ASSUME OuterTakes PROVE Spec => []CallsReturn
<1>1. TreeInv => CallsReturn
  BY DEF TreeInv, Near, CallsReturn
<1> QED
  BY TreeIsSound, <1>1, PTL

\* The tree implements the set of OrderedSet: equal keys are refused,
\* avltree_take_min() and avltree_take_max() yield the node with the smallest
\* and the greatest key, and avltree_destroy() reaches every node.
THEOREM TreeImplementsOrderedSet ==
  ASSUME OuterTakes PROVE Spec => ImplementsOrderedSet
<1>1. Init => OS!Init
  BY DEF Init, OS!Init
<1>2. TreeInv /\ [Next]_vars => [OS!Next]_(OS!vars)
  BY StepKeeps
<1> QED
  BY TreeIsSound, <1>1, <1>2, PTL DEF Spec, OS!Spec, ImplementsOrderedSet

-----------------------------------------------------------------------------
(* Visiting the nodes in postorder *)

\* The nodes on the left of n, and those that are visited up to n.
LeftOf(A, B, M, d, n) ==
    {m \in M : \E a \in M : m \in Below(d, A[a]) /\ n \in Below(d, B[a])}

UpTo(A, B, M, d, n) == d[n] \cup LeftOf(A, B, M, d, n)

\* What is left of a node is not below it, and is left of what is below it.
LEMMA LeftApart ==
  ASSUME NEW M, NEW A, NEW B, NEW K, NEW d, Ordered(A, B, K, M, d),
         NEW n \in M, NEW m \in d[n], NEW x, x \in LeftOf(A, B, M, d, n)
  PROVE  x \notin d[n] /\ x \in LeftOf(A, B, M, d, m) /\ x \in M
<1>1. PICK a \in M : x \in Below(d, A[a]) /\ n \in Below(d, B[a]) /\ x \in M
  BY DEF LeftOf
<1>2. /\ A[a] \in M \cup {Null} /\ B[a] \in M \cup {Null}
      /\ Below(d, A[a]) \cap Below(d, B[a]) = {}
  <2>1. Below(d, A[a]) \cap Below(d, B[a]) = {}
    BY SidesApart
  <2> QED
    BY <2>1 DEF Ordered
<1>3. d[n] \subseteq Below(d, B[a])
  BY <1>1, <1>2, BelowBelow DEF Below
<1> QED
  BY <1>1, <1>2, <1>3 DEF LeftOf

\* A child c of p, and what is left of it.
ChildLeft(A, B, M, d, p, c) ==
    LeftOf(A, B, M, d, c) =
      LeftOf(A, B, M, d, p) \cup (IF c = A[p] THEN {} ELSE Below(d, A[p]))

LEMMA LeftOfChild ==
  ASSUME NEW M, NEW A, NEW B, NEW K, NEW d, NEW P, NEW root,
         IsTree(A, B, K, P, root, M, d), NEW p \in M, NEW c, c # Null, c = A[p] \/ c = B[p]
  PROVE  ChildLeft(A, B, M, d, p, c) /\ c \in M /\ c \in d[p] /\ P[c] = p
<1>1. Ordered(A, B, K, M, d)
  BY DEF IsTree
<1>2. c \in M /\ P[c] = p
  BY ChildOf
<1>3. c \in d[c] /\ c \in d[p] /\ d[p] = {p} \cup Below(d, A[p]) \cup Below(d, B[p])
  <2>1. c \in d[c] /\ d[p] = {p} \cup Below(d, A[p]) \cup Below(d, B[p])
    BY <1>1, <1>2, SidesApart DEF Ordered
  <2> QED
    BY <2>1 DEF Below
<1>4. A[p] # Null => A[p] # B[p]
  BY <1>1, SidesApart
<1>5. ASSUME NEW a \in M, c \in Below(d, B[a]) PROVE p \in Below(d, B[a]) \/ (a = p /\ c = B[p])
  <2>1. B[a] \in M /\ B[a] # Null /\ c \in d[B[a]]
    BY <1>1, <1>5 DEF Ordered, Below
  <2>2. CASE c = B[a]
    <3>1. P[B[a]] = a
      BY <2>1, <2>2, ChildOf
    <3> QED
      BY <1>2, <2>2, <3>1
  <2>3. CASE c # B[a]
    <3>1. p \in d[B[a]]
      BY <1>2, <2>1, <2>3, ParentBelow
    <3> QED
      BY <2>1, <3>1 DEF Below
  <2> QED
    BY <2>2, <2>3
<1>6. LeftOf(A, B, M, d, p) \subseteq LeftOf(A, B, M, d, c)
  BY <1>1, <1>3, LeftApart
<1>7. CASE c = A[p]
  <2>1. c # B[p]
    BY <1>4, <1>7
  <2>2. LeftOf(A, B, M, d, c) \subseteq LeftOf(A, B, M, d, p)
    BY <1>5, <2>1 DEF LeftOf
  <2>3. ChildLeft(A, B, M, d, p, c)
    BY <1>6, <1>7, <2>2 DEF ChildLeft
  <2> QED
    BY <1>2, <1>3, <2>3
<1>8. CASE c # A[p]
  <2>1. c = B[p]
    BY <1>8
  <2>2. Below(d, A[p]) \subseteq M /\ c \in Below(d, B[p])
    <3>1. d[p] \subseteq M
      BY <1>1, SidesApart
    <3> QED
      BY <1>3, <2>1, <3>1 DEF Below
  <2>3. Below(d, A[p]) \subseteq LeftOf(A, B, M, d, c)
    BY <2>2 DEF LeftOf
  <2>4. LeftOf(A, B, M, d, c) \subseteq LeftOf(A, B, M, d, p) \cup Below(d, A[p])
    BY <1>5 DEF LeftOf
  <2>5. ChildLeft(A, B, M, d, p, c)
    BY <1>6, <1>8, <2>3, <2>4 DEF ChildLeft
  <2> QED
    BY <1>2, <1>3, <2>5
<1> QED
  BY <1>7, <1>8

\* Nothing is left of the root.
LEMMA LeftOfRoot ==
  ASSUME NEW M, NEW A, NEW B, NEW K, NEW d, NEW P, NEW root,
         IsTree(A, B, K, P, root, M, d), NEW n \in M
  PROVE  /\ root \in M /\ d[root] = M
         /\ LeftOf(A, B, M, d, root) = {} /\ UpTo(A, B, M, d, root) = M
         /\ root \in UpTo(A, B, M, d, n) => n = root
<1>1. Ordered(A, B, K, M, d) /\ Rooted(root, M, d)
  BY DEF IsTree
<1>2. root \in M /\ d[root] = M
  BY <1>1, RootAbove DEF Rooted, Below
<1>3. \A x \in M : root \in d[x] => x = root
  BY <1>1, <1>2, BelowOnce
<1>4. ASSUME NEW a \in M, NEW c, c = A[a] \/ c = B[a], root \in Below(d, c) PROVE FALSE
  <2>1. c = Null \/ (c \in M /\ c # root)
    BY <1>4, ChildOf
  <2> QED
    BY <1>3, <1>4, <2>1 DEF Below
<1>5. LeftOf(A, B, M, d, root) = {} /\ root \notin LeftOf(A, B, M, d, n)
  BY <1>4 DEF LeftOf
<1> QED
  BY <1>2, <1>3, <1>5 DEF UpTo

\* The recursive function of PostorderFirst().
Firsts(t, first) ==
    first = [n \in Nodes |->
               IF t.left[n] # Null THEN first[t.left[n]]
               ELSE IF t.right[n] # Null THEN first[t.right[n]]
               ELSE n]

LEMMA FirstExists ==
  ASSUME NEW t \in Trees
  PROVE  \E first : Firsts(t, first) /\ first \in SelfMaps(Nodes)
<1> DEFINE stops == {n \in Nodes : t.left[n] = Null /\ t.right[n] = Null}
           ends  == [n \in Nodes |-> n]
           next(n) == IF t.left[n] # Null THEN t.left[n] ELSE t.right[n]
           succ  == [n \in Nodes |-> IF n \in stops THEN n ELSE next(n)]
<1>1. ASSUME NEW n \in Nodes, n \notin stops PROVE next(n) \in Nodes
  <2>1. t.left[n] \in Pointers /\ t.right[n] \in Pointers
    BY DEF Trees
  <2> QED
    BY <1>1, <2>1 DEF Pointers
<1>2. Follows(Nodes, Nodes, ends, succ)
  BY <1>1 DEF Follows, SelfMaps
<1> HIDE DEF ends, succ, stops
<1>3. PICK g : Arrives(Nodes, Nodes, stops, ends, succ, g)
  BY <1>2, TailRecursion
<1>4. g \in [Nodes -> Nodes] /\ \A n \in Nodes : g[n] = IF n \in stops THEN n ELSE g[next(n)]
  BY <1>3 DEF Arrives, ends, succ
<1>5. g = [n \in Nodes |-> IF t.left[n] # Null THEN g[t.left[n]]
                           ELSE IF t.right[n] # Null THEN g[t.right[n]] ELSE n]
  BY <1>4 DEF stops
<1> QED
  BY <1>4, <1>5 DEF Firsts, SelfMaps

\* PostorderFirst() is the node that is visited first of those below "top".
FirstBelow(A, B, M, d, top, f) ==
    /\ f \in d[top] /\ f \in M /\ d[f] = {f}
    /\ LeftOf(A, B, M, d, f) = LeftOf(A, B, M, d, top)

LEMMA FirstIs ==
  ASSUME NEW t, NEW M, NEW d, Sound(t, M, d), NEW top \in M
  PROVE  FirstBelow(t.left, t.right, M, d, top, PostorderFirst(t, top))
<1> DEFINE A == t.left
           B == t.right
           first == CHOOSE f : f = [n \in Nodes |->
               IF t.left[n] # Null THEN f[t.left[n]]
               ELSE IF t.right[n] # Null THEN f[t.right[n]]
               ELSE n]
<1>1. PostorderFirst(t, top) = first[top]
  BY DEF PostorderFirst
<1>2. /\ t \in Trees /\ M \subseteq Nodes /\ Null \notin M
      /\ IsTree(A, B, KeyOf, t.parent, t.root, M, d) /\ Ordered(A, B, KeyOf, M, d)
  BY SoundFrom DEF Sides, Sound, IsTree
<1>3. Firsts(t, first)
  <2>1. PICK w : Firsts(t, w)
    BY <1>2, FirstExists
  <2>2. first = CHOOSE f : Firsts(t, f)
    BY DEF Firsts
  <2> HIDE DEF first
  <2> QED
    BY <2>1, <2>2, Zenon
<1> HIDE DEF first
<1>4. \A n \in Nodes : first[n] = IF A[n] # Null THEN first[A[n]]
                                  ELSE IF B[n] # Null THEN first[B[n]] ELSE n
  <2>1. first = [n \in Nodes |->
               IF t.left[n] # Null THEN first[t.left[n]]
               ELSE IF t.right[n] # Null THEN first[t.right[n]]
               ELSE n]
    BY <1>3 DEF Firsts
  <2> QED
    BY <2>1, Zenon
<1> HIDE DEF A, B
<1> DEFINE Good(n) == FirstBelow(A, B, M, d, n, first[n])
           U == {d[n] : n \in {m \in M : ~Good(m)}}
<1>5. IsFiniteSet(M)
  BY <1>2, TreeAssumption, FS_Subset
<1>6. U \in SUBSET SUBSET M
  BY <1>2, SidesApart
<1>7. U = {}
  <2> SUFFICES ASSUME U # {} PROVE FALSE
    OBVIOUS
  <2> HIDE DEF U
  <2>1. PICK s \in U : \A v \in U : v \subseteq s => v = s
    BY <1>5, <1>6, SmallestSet
  <2>2. PICK n \in M : s = d[n] /\ ~Good(n)
    BY <2>1 DEF U
  <2>3. n \in Nodes /\ n \in d[n] /\ d[n] = {n} \cup Below(d, A[n]) \cup Below(d, B[n])
    BY <1>2, SidesApart DEF Ordered
  <2>4. ASSUME NEW c, c # Null, c = A[n] \/ c = B[n], first[n] = first[c],
               LeftOf(A, B, M, d, c) = LeftOf(A, B, M, d, n)
        PROVE  FALSE
    <3>1. c \in M /\ c \in d[n]
      BY <1>2, <2>4, LeftOfChild
    <3>2. d[c] \subseteq d[n] /\ n \notin d[c]
      <4>1. n \notin Below(d, A[n]) /\ n \notin Below(d, B[n])
        BY <1>2, SidesApart
      <4> QED
        BY <1>2, <2>4, <3>1, <4>1, BelowBelow DEF Below
    <3>3. Good(c)
      <4> SUFFICES ASSUME ~Good(c) PROVE FALSE
        OBVIOUS
      <4> HIDE DEF Good
      <4>1. d[c] \in U
        BY <3>1 DEF U
      <4> QED
        BY <2>1, <2>2, <2>3, <3>2, <4>1
    <3>4. Good(n)
      BY <2>4, <3>2, <3>3 DEF FirstBelow
    <3> QED
      BY <2>2, <3>4
  <2>5. CASE A[n] # Null
    <3>1. LeftOf(A, B, M, d, A[n]) = LeftOf(A, B, M, d, n)
      <4>1. ChildLeft(A, B, M, d, n, A[n])
        BY <1>2, <2>5, LeftOfChild
      <4> QED
        BY <4>1 DEF ChildLeft
    <3>2. first[n] = first[A[n]]
      BY <1>4, <2>3, <2>5
    <3> HIDE DEF Good
    <3> QED
      BY <2>4, <2>5, <3>1, <3>2
  <2>6. CASE A[n] = Null /\ B[n] # Null
    <3>1. LeftOf(A, B, M, d, B[n]) = LeftOf(A, B, M, d, n)
      <4>1. ChildLeft(A, B, M, d, n, B[n])
        BY <1>2, <2>6, LeftOfChild
      <4> QED
        BY <2>6, <4>1 DEF ChildLeft, Below
    <3>2. first[n] = first[B[n]]
      BY <1>4, <2>3, <2>6
    <3> HIDE DEF Good
    <3> QED
      BY <2>4, <2>6, <3>1, <3>2
  <2>7. CASE A[n] = Null /\ B[n] = Null
    <3>1. first[n] = n /\ d[n] = {n}
      BY <1>4, <2>3, <2>7 DEF Below
    <3> QED
      BY <2>2, <3>1 DEF FirstBelow
  <2> QED
    BY <2>5, <2>6, <2>7
<1>8. FirstBelow(A, B, M, d, top, first[top])
  BY <1>7
<1> QED
  BY <1>1, <1>8 DEF A, B

\* The next node is the only one that is visited up to it, but not before.
Follower(A, B, M, d, n, q) ==
    /\ q \in M /\ q \notin UpTo(A, B, M, d, n)
    /\ UpTo(A, B, M, d, q) = UpTo(A, B, M, d, n) \cup {q}

LEMMA NextFollows ==
  ASSUME NEW t, NEW M, NEW d, Sound(t, M, d), NEW n \in M, n # t.root
  PROVE  Follower(t.left, t.right, M, d, n, PostorderNext(t, n))
<1> DEFINE A == t.left
           B == t.right
           P == t.parent
           p == t.parent[n]
           q == PostorderNext(t, n)
<1>1. /\ t \in Trees /\ M \subseteq Nodes /\ Null \notin M
      /\ IsTree(A, B, KeyOf, P, t.root, M, d) /\ Ordered(A, B, KeyOf, M, d)
  BY SoundFrom DEF Sides, Sound, IsTree
<1>2. /\ p # Null /\ p \in M /\ p \notin d[n]
      /\ (A[p] = n /\ B[p] # n) \/ (B[p] = n /\ A[p] # n)
  BY Family DEF Sides
<1>3. q = IF B[p] # Null /\ A[p] = n THEN PostorderFirst(t, B[p]) ELSE p
  BY <1>2 DEF PostorderNext
<1> HIDE DEF P, p, q
<1>4. n # Null /\ ChildLeft(A, B, M, d, p, n)
  <2> HIDE DEF A, B
  <2> QED
    BY <1>1, <1>2, LeftOfChild
<1>5. /\ d[p] = {p} \cup Below(d, A[p]) \cup Below(d, B[p]) /\ d[p] \subseteq M
      /\ Below(d, A[p]) \cap Below(d, B[p]) = {}
      /\ p \notin Below(d, A[p]) /\ p \notin Below(d, B[p]) /\ p \in d[p]
      /\ A[p] \in M \cup {Null} /\ B[p] \in M \cup {Null}
  <2> HIDE DEF A, B
  <2>1. /\ Below(d, A[p]) \cap Below(d, B[p]) = {} /\ d[p] \subseteq M /\ p \in d[p]
        /\ p \notin Below(d, A[p]) /\ p \notin Below(d, B[p])
    BY <1>1, <1>2, SidesApart
  <2> QED
    BY <1>1, <1>2, <2>1 DEF Ordered
<1>6. \A x \in LeftOf(A, B, M, d, p) : x \notin d[p] /\ x \in M
  <2> HIDE DEF A, B
  <2> QED
    BY <1>1, <1>2, <1>5, LeftApart
<1>7. CASE A[p] = n /\ B[p] # Null
  <2> DEFINE r == B[p]
  <2>1. r \in M /\ r # n
    BY <1>2, <1>5, <1>7
  <2>2. FirstBelow(A, B, M, d, r, q)
    BY <1>3, <1>7, <2>1, FirstIs
  <2>3. ChildLeft(A, B, M, d, p, r)
    <3> HIDE DEF A, B
    <3> QED
      BY <1>1, <1>2, <1>7, LeftOfChild
  <2>4. LeftOf(A, B, M, d, r) = LeftOf(A, B, M, d, p) \cup d[n]
    BY <1>4, <1>7, <2>1, <2>3 DEF ChildLeft, Below
  <2>5. LeftOf(A, B, M, d, n) = LeftOf(A, B, M, d, p)
    BY <1>4, <1>7 DEF ChildLeft
  <2>6. q \in M /\ q \in d[r] /\ d[q] = {q} /\ LeftOf(A, B, M, d, q) = LeftOf(A, B, M, d, r)
    BY <2>2 DEF FirstBelow
  <2>7. d[r] \subseteq d[p] /\ d[r] \cap d[n] = {}
    BY <1>4, <1>5, <1>7 DEF Below
  <2> HIDE DEF r
  <2> QED
    BY <1>6, <2>4, <2>5, <2>6, <2>7 DEF Follower, UpTo, A, B, q
<1>8. CASE ~(A[p] = n /\ B[p] # Null)
  <2>1. q = p
    BY <1>3, <1>8
  <2>2. d[n] \cup (IF n = A[p] THEN {} ELSE Below(d, A[p])) = Below(d, A[p]) \cup Below(d, B[p])
    <3>1. CASE A[p] = n
      BY <1>4, <1>8, <3>1 DEF Below
    <3>2. CASE B[p] = n /\ A[p] # n
      BY <1>4, <3>2 DEF Below
    <3> QED
      BY <1>2, <3>1, <3>2
  <2>3. UpTo(A, B, M, d, n) = Below(d, A[p]) \cup Below(d, B[p]) \cup LeftOf(A, B, M, d, p)
    BY <1>4, <2>2 DEF UpTo, ChildLeft
  <2>4. UpTo(A, B, M, d, p) = d[p] \cup LeftOf(A, B, M, d, p)
    BY DEF UpTo
  <2>5. p \notin LeftOf(A, B, M, d, p)
    BY <1>5, <1>6
  <2> QED
    BY <1>2, <1>5, <2>1, <2>3, <2>4, <2>5 DEF Follower, q
<1> QED
  BY <1>7, <1>8

\* The recursive function of Visited().
Visits(t, visit) ==
    visit = [i \in 1 .. Cardinality(Nodes) + 1 |->
               IF i = 1 THEN PostorderFirst(t, t.root)
               ELSE IF visit[i - 1] = Null THEN Null
               ELSE PostorderNext(t, visit[i - 1])]

LEMMA VisitExists ==
  ASSUME NEW t, NEW M, NEW d, Sound(t, M, d), t.root # Null
  PROVE  \E visit : Visits(t, visit)
<1> DEFINE X    == M \cup {Null}
           x0   == PostorderFirst(t, t.root)
           step == [n \in X |-> IF n = Null THEN Null ELSE PostorderNext(t, n)]
           N    == Cardinality(Nodes)
<1>1. Null \notin M /\ t.root \in M /\ t.parent[t.root] = Null
  <2>1. Null \notin M
    BY SoundFrom DEF Sides
  <2>2. t.root \in M /\ t.parent[t.root] = Null
    BY DEF Sound, IsTree, Rooted, Linked
  <2> QED
    BY <2>1, <2>2
<1>2. x0 \in X
  <2>1. FirstBelow(t.left, t.right, M, d, t.root, x0)
    BY <1>1, FirstIs
  <2> QED
    BY <2>1 DEF FirstBelow
<1>3. step \in SelfMaps(X)
  <2> SUFFICES ASSUME NEW n \in M PROVE PostorderNext(t, n) \in X
    BY DEF SelfMaps
  <2>1. CASE n = t.root
    BY <1>1, <2>1 DEF PostorderNext
  <2>2. CASE n # t.root
    <3>1. Follower(t.left, t.right, M, d, n, PostorderNext(t, n))
      BY <2>2, NextFollows
    <3> QED
      BY <3>1 DEF Follower
  <2> QED
    BY <2>1, <2>2
<1>4. PICK f : f \in [Nat -> X] /\ f[0] = x0 /\ \A n \in Nat : f[n + 1] = step[f[n]]
  <2> HIDE DEF step, x0, X
  <2>1. \E f : Iterates(X, x0, step, f)
    BY <1>2, <1>3, NumberRecursion
  <2> QED
    BY <2>1 DEF Iterates
<1> DEFINE visit == [i \in 1 .. N + 1 |-> f[i - 1]]
<1>5. N \in Nat
  BY TreeAssumption, FS_CardinalityType
<1> HIDE DEF x0, N
<1>6. ASSUME NEW i \in 1 .. N + 1
      PROVE  visit[i] = IF i = 1 THEN x0
                        ELSE IF visit[i - 1] = Null THEN Null
                        ELSE PostorderNext(t, visit[i - 1])
  <2>1. CASE i = 1
    BY <1>4, <2>1
  <2>2. CASE i # 1
    <3>1. /\ i - 1 \in 1 .. N + 1 /\ (i - 1) - 1 \in Nat /\ ((i - 1) - 1) + 1 = i - 1
      BY <1>5, <2>2
    <3>2. visit[i] = f[i - 1] /\ visit[i - 1] = f[(i - 1) - 1]
      BY <3>1
    <3> DEFINE k == (i - 1) - 1
    <3>3. k \in Nat /\ k + 1 = i - 1
      BY <3>1
    <3>4. f[k] \in X /\ f[k + 1] = step[f[k]]
      <4> HIDE DEF k, step, X
      <4> QED
        BY <1>4, <3>3
    <3>5. step[f[k]] = IF f[k] = Null THEN Null ELSE PostorderNext(t, f[k])
      <4> HIDE DEF k, X
      <4> QED
        BY <3>4
    <3> HIDE DEF visit, step, X
    <3> QED
      BY <2>2, <3>2, <3>3, <3>4, <3>5
  <2> QED
    BY <2>1, <2>2
<1>7. visit = [i \in 1 .. N + 1 |-> IF i = 1 THEN x0
                                    ELSE IF visit[i - 1] = Null THEN Null
                                    ELSE PostorderNext(t, visit[i - 1])]
  BY <1>6
<1> QED
  BY <1>7 DEF Visits, x0, N

\* After i nodes, those up to the last of them have been visited.
Reached(t, M, d, visit, i) ==
    /\ visit[i] \in M
    /\ UpTo(t.left, t.right, M, d, visit[i]) = {visit[j] : j \in 1 .. i}
    /\ Cardinality({visit[j] : j \in 1 .. i}) = i

\* What the iteration visits.
Postorder(t, M, visit, last) ==
    /\ {visit[i] : i \in 1 .. last} = M
    /\ visit[last + 1] = Null
    /\ \A i, j \in 1 .. last : t.parent[visit[i]] = visit[j] => i < j

LEMMA VisitsAll ==
  ASSUME NEW t, NEW M, NEW d, Sound(t, M, d), M # {}
  PROVE  Postorder(t, M, Visited(t), Cardinality(M))
<1> DEFINE A == t.left
           B == t.right
           N == Cardinality(Nodes)
           last == Cardinality(M)
           visit == CHOOSE v : v = [i \in 1 .. Cardinality(Nodes) + 1 |->
               IF i = 1 THEN PostorderFirst(t, t.root)
               ELSE IF v[i - 1] = Null THEN Null
               ELSE PostorderNext(t, v[i - 1])]
<1>1. Visited(t) = visit
  BY DEF Visited
<1>2. /\ M \subseteq Nodes /\ Null \notin M /\ t.root \in M /\ t.root # Null
      /\ IsTree(A, B, KeyOf, t.parent, t.root, M, d) /\ Ordered(A, B, KeyOf, M, d)
      /\ t.parent[t.root] = Null
  <2>1. Null \notin M /\ M \subseteq Nodes
    BY SoundFrom DEF Sides
  <2>2. /\ IsTree(A, B, KeyOf, t.parent, t.root, M, d) /\ Ordered(A, B, KeyOf, M, d)
        /\ Rooted(t.root, M, d) /\ Linked(A, B, t.parent, t.root, M)
    BY DEF Sound, IsTree
  <2>3. t.root \in M
    BY <2>2 DEF Rooted, Below
  <2> QED
    BY <2>1, <2>2, <2>3 DEF Linked
<1>3. Visits(t, visit)
  <2>1. PICK w : Visits(t, w)
    BY <1>2, VisitExists
  <2>2. visit = CHOOSE v : Visits(t, v)
    BY DEF Visits
  <2> HIDE DEF visit
  <2> QED
    BY <2>1, <2>2, Zenon
<1>4. /\ N \in Nat /\ last \in Nat /\ last <= N /\ last # 0 /\ IsFiniteSet(M)
  <2>1. N \in Nat /\ IsFiniteSet(M) /\ last <= N
    BY <1>2, TreeAssumption, FS_Subset, FS_CardinalityType
  <2> QED
    BY <2>1, FS_CardinalityType, FS_EmptySet
<1> HIDE DEF visit, N, last
<1>5. /\ visit[1] = PostorderFirst(t, t.root)
      /\ \A i \in Nat : 1 <= i /\ i <= N =>
            visit[i + 1] = IF visit[i] = Null THEN Null ELSE PostorderNext(t, visit[i])
  <2>1. \A i \in 1 .. N + 1 : visit[i] = IF i = 1 THEN PostorderFirst(t, t.root)
                                         ELSE IF visit[i - 1] = Null THEN Null
                                         ELSE PostorderNext(t, visit[i - 1])
    <3>1. visit = [i \in 1 .. N + 1 |-> IF i = 1 THEN PostorderFirst(t, t.root)
                                        ELSE IF visit[i - 1] = Null THEN Null
                                        ELSE PostorderNext(t, visit[i - 1])]
      BY <1>3 DEF Visits, N
    <3> QED
      BY <3>1, Zenon
  <2>2. visit[1] = PostorderFirst(t, t.root)
    BY <1>4, <2>1
  <2>3. ASSUME NEW i \in Nat, 1 <= i, i <= N
        PROVE  visit[i + 1] = IF visit[i] = Null THEN Null ELSE PostorderNext(t, visit[i])
    <3>1. i + 1 \in 1 .. N + 1 /\ i + 1 # 1 /\ (i + 1) - 1 = i
      BY <1>4, <2>3
    <3>2. visit[i + 1] = IF visit[(i + 1) - 1] = Null THEN Null
                         ELSE PostorderNext(t, visit[(i + 1) - 1])
      BY <2>1, <3>1
    <3> QED
      BY <3>1, <3>2
  <2> QED
    BY <2>2, <2>3
<1>6. \A n \in M : n \in d[n] /\ n \in UpTo(A, B, M, d, n) /\ UpTo(A, B, M, d, n) \subseteq M
  <2> HIDE DEF A, B
  <2> SUFFICES ASSUME NEW n \in M
               PROVE  n \in d[n] /\ n \in UpTo(A, B, M, d, n) /\ UpTo(A, B, M, d, n) \subseteq M
    OBVIOUS
  <2>1. n \in d[n] /\ d[n] \subseteq M
    BY <1>2, SidesApart
  <2> QED
    BY <2>1 DEF UpTo, LeftOf
<1>7. \A n \in M : /\ UpTo(A, B, M, d, t.root) = M /\ LeftOf(A, B, M, d, t.root) = {}
                   /\ t.root \in UpTo(A, B, M, d, n) => n = t.root
  <2> HIDE DEF A, B
  <2> QED
    BY <1>2, LeftOfRoot
<1> DEFINE S == {k \in Nat : k + 1 <= last => Reached(t, M, d, visit, k + 1)}
<1>8. 0 \in S
  <2>1. FirstBelow(A, B, M, d, t.root, visit[1])
    BY <1>2, <1>5, FirstIs
  <2>2. visit[1] \in M /\ UpTo(A, B, M, d, visit[1]) = {visit[1]}
    BY <1>2, <1>7, <2>1 DEF FirstBelow, UpTo
  <2>3. {visit[j] : j \in 1 .. 1} = {visit[1]} /\ Cardinality({visit[1]}) = 1
    <3>1. \A j : j \in 1 .. 1 <=> j = 1
      OBVIOUS
    <3>2. {visit[j] : j \in 1 .. 1} = {visit[1]}
      BY <3>1
    <3>3. Cardinality({visit[1]}) = 1
      BY FS_Singleton
    <3> QED
      BY <3>2, <3>3
  <2>4. Reached(t, M, d, visit, 1)
    BY <2>2, <2>3 DEF Reached
  <2> QED
    BY <2>4, 0 + 1 = 1
<1>9. ASSUME NEW k \in Nat, k \in S PROVE k + 1 \in S
  <2> SUFFICES ASSUME (k + 1) + 1 <= last PROVE Reached(t, M, d, visit, (k + 1) + 1)
    OBVIOUS
  <2> DEFINE i == k + 1
             n == visit[i]
             q == visit[i + 1]
             V == {visit[j] : j \in 1 .. i}
  <2>1. i \in Nat /\ 1 <= i /\ i <= N /\ i + 1 <= last /\ i < last
    BY <1>4
  <2>2. Reached(t, M, d, visit, i)
    BY <1>9, <1>4
  <2> HIDE DEF i
  <2>3. n \in M /\ UpTo(A, B, M, d, n) = V /\ Cardinality(V) = i
    BY <2>2 DEF Reached
  <2>4. n # t.root
    <3> HIDE DEF V, n, A, B
    <3>1. n = t.root => V = M
      BY <1>7, <2>3
    <3>2. n = t.root => i = last
      BY <2>3, <3>1 DEF last
    <3> QED
      BY <1>4, <2>1, <3>2
  <2>5. q = PostorderNext(t, n)
    BY <1>2, <1>5, <2>1, <2>3
  <2>6. Follower(A, B, M, d, n, q)
    BY <2>3, <2>4, <2>5, NextFollows
  <2>7. /\ q \in M /\ q \notin V
        /\ UpTo(A, B, M, d, q) = V \cup {q}
    BY <2>3, <2>6 DEF Follower
  <2>8. {visit[j] : j \in 1 .. i + 1} = V \cup {q}
    <3>1. \A j : j \in 1 .. i + 1 <=> j \in 1 .. i \/ j = i + 1
      BY <2>1
    <3> QED
      BY <3>1
  <2>9. V \subseteq M
    BY <1>6, <2>3
  <2> HIDE DEF V, q, n
  <2>10. Cardinality(V \cup {q}) = i + 1
    BY <1>4, <2>3, <2>7, <2>9, FS_Subset, FS_AddElement
  <2>11. Reached(t, M, d, visit, i + 1)
    BY <2>7, <2>8, <2>10 DEF Reached, q
  <2> QED
    BY <2>11 DEF i
<1>10. ASSUME NEW i \in 1 .. last PROVE Reached(t, M, d, visit, i)
  <2>1. i - 1 \in Nat /\ (i - 1) + 1 = i /\ i <= last
    BY <1>4
  <2>2. i - 1 \in S
    <3> HIDE DEF S
    <3> QED
      BY <1>8, <1>9, <2>1, NumberInduction
  <2>3. (i - 1) + 1 <= last => Reached(t, M, d, visit, (i - 1) + 1)
    BY <2>2
  <2> QED
    BY <2>1, <2>3
<1> DEFINE V(i) == {visit[j] : j \in 1 .. i}
<1>11. \A i \in 1 .. last : /\ visit[i] \in M /\ UpTo(A, B, M, d, visit[i]) = V(i)
                            /\ Cardinality(V(i)) = i /\ V(i) \subseteq M
  <2> SUFFICES ASSUME NEW i \in 1 .. last
               PROVE  /\ visit[i] \in M /\ UpTo(A, B, M, d, visit[i]) = V(i)
                      /\ Cardinality(V(i)) = i /\ V(i) \subseteq M
    OBVIOUS
  <2>1. visit[i] \in M /\ UpTo(A, B, M, d, visit[i]) = V(i) /\ Cardinality(V(i)) = i
    BY <1>10 DEF Reached
  <2> HIDE DEF V
  <2> QED
    BY <1>6, <2>1
<1>12. last \in 1 .. last /\ V(last) = M
  <2>1. last \in 1 .. last
    BY <1>4
  <2>2. Cardinality(V(last)) = last /\ V(last) \subseteq M
    BY <1>11, <2>1
  <2> HIDE DEF V
  <2>3. V(last) = M
    BY <1>4, <2>2, FS_Subset DEF last
  <2> QED
    BY <2>1, <2>3
<1>13. visit[last] = t.root
  <2>1. visit[last] \in M /\ UpTo(A, B, M, d, visit[last]) = M
    BY <1>11, <1>12
  <2> QED
    BY <1>2, <1>7, <2>1
<1>14. visit[last + 1] = Null
  <2>1. visit[last + 1] = PostorderNext(t, t.root)
    BY <1>2, <1>4, <1>5, <1>13
  <2> QED
    BY <1>2, <2>1 DEF PostorderNext
<1>15. ASSUME NEW i \in 1 .. last, NEW j \in 1 .. last, t.parent[visit[i]] = visit[j] PROVE i < j
  <2> DEFINE c == visit[i]
             p == visit[j]
  <2>1. c \in M /\ p \in M /\ t.parent[c] = p
    BY <1>11, <1>15
  <2>2. c \in d[p] /\ p \notin d[c] /\ c # p
    BY <1>2, <2>1, Family DEF Sides
  <2>3. c \in UpTo(A, B, M, d, p)
    BY <2>2 DEF UpTo
  <2>4. p \notin UpTo(A, B, M, d, c)
    <3> HIDE DEF A, B
    <3>1. p \notin LeftOf(A, B, M, d, c)
      <4> SUFFICES ASSUME p \in LeftOf(A, B, M, d, c) PROVE FALSE
        OBVIOUS
      <4>1. PICK a \in M : p \in Below(d, A[a]) /\ c \in Below(d, B[a])
        BY DEF LeftOf
      <4>2. /\ A[a] \in M \cup {Null} /\ Below(d, A[a]) \cap Below(d, B[a]) = {}
        <5>1. Below(d, A[a]) \cap Below(d, B[a]) = {}
          BY <1>2, SidesApart
        <5> QED
          BY <1>2, <5>1 DEF Ordered
      <4>3. c \in Below(d, A[a])
        <5>1. A[a] \in M /\ p \in d[A[a]]
          BY <4>1, <4>2 DEF Below
        <5>2. d[p] \subseteq d[A[a]]
          BY <1>2, <5>1, BelowBelow
        <5> QED
          BY <1>2, <2>2, <5>1, <5>2 DEF Below
      <4> QED
        BY <4>1, <4>2, <4>3
    <3> QED
      BY <2>2, <3>1 DEF UpTo
  <2>5. p \notin V(i)
    BY <1>11, <2>4
  <2>6. ~(j <= i)
    <3>1. j <= i => j \in 1 .. i
      BY <1>4
    <3> QED
      BY <2>5, <3>1
  <2> QED
    BY <1>4, <2>6
<1> QED
  BY <1>1, <1>12, <1>14, <1>15 DEF Postorder, last

\* avltree_for_each_postorder() visits every node exactly once and ends, and a
\* node after its children, so that the nodes may be freed on the way.
THEOREM TreePostorderVisitsAll ==
  ASSUME OuterTakes PROVE Spec => []PostorderVisitsAll
<1>1. TreeInv => PostorderVisitsAll
  <2> SUFFICES ASSUME TreeInv, members # {}
               PROVE  LET visit == Visited(tree)
                          last  == Cardinality(members)
                      IN  /\ {visit[i] : i \in 1..last} = members
                          /\ visit[last + 1] = Null
                          /\ \A i, j \in 1..last : tree.parent[visit[i]] = visit[j] => i < j
    BY DEF PostorderVisitsAll
  <2>1. PICK d : Near(tree, members, d, Null)
    BY DEF TreeInv
  <2>2. Sound(tree, members, d)
    BY <2>1 DEF Near
  <2>3. Postorder(tree, members, Visited(tree), Cardinality(members))
    BY <2>2, VisitsAll
  <2> QED
    BY <2>3 DEF Postorder
<1> QED
  BY TreeIsSound, <1>1, PTL
=============================================================================
