-------------------------- MODULE LinkedListProofs --------------------------
(***************************************************************************)
(* LinkedList for any number of links, lists, queues and stacks: the rings *)
(* stay closed in both directions and implement the sequences of Deques.   *)
(***************************************************************************)
EXTENDS LinkedList, Induction, SequenceTheorems

\* The i-th node of the ring of h with the elements s; the head is the one before
\* the first and the one behind the last.
Node(h, s, i) == IF i \in 1..Len(s) THEN s[i] ELSE h

\* f leads forward, and g backward, from one node of the ring to the next.
Ring(f, g, h, s) ==
    \A i \in 0..Len(s) : /\ f[Node(h, s, i)] = Node(h, s, i + 1)
                         /\ g[Node(h, s, i + 1)] = Node(h, s, i)

Distinct(s) == \A i, j \in 1..Len(s) : s[i] = s[j] => i = j

Apart(s, t) == \A i \in 1..Len(s), j \in 1..Len(t) : s[i] # t[j]

\* The pointers of a program's rings, the sequence of each head given.
Rings(f, g, c) ==
    /\ f \in [Nodes -> Nodes] /\ g \in [Nodes -> Nodes]
    /\ c \in [Heads -> Seq(Links)]
    /\ \A h \in Heads : Ring(f, g, h, c[h]) /\ Distinct(c[h])
    /\ \A h, o \in Heads : h # o => Apart(c[h], c[o])

Contents == [h \in Heads |-> Elements(h)]

\* The inductive form of RingsClosed.
RingsInv ==
    /\ Rings(next, prev, Contents)
    /\ size \in [Queues \cup Stacks -> Nat]
    /\ \A h \in Queues \cup Stacks : size[h] = Len(Contents[h])

-----------------------------------------------------------------------------
(* Traversal *)

\* What "at" of Around is: the nodes at 0, 1, ..., m steps from h.
Walks(f, h, m, at) == at = [i \in 0..m |-> IF i = 0 THEN h ELSE f[at[i - 1]]]

\* A walk can be made as long as one likes.
LEMMA WalkExists ==
  ASSUME NEW f, NEW h, NEW m \in Nat
  PROVE  \E at : Walks(f, h, m, at)
<1> DEFINE S == {n \in Nat : \E at : Walks(f, h, n, at)}
<1>1. 0 \in S
  <2> DEFINE at == [i \in 0..0 |-> h]
  <2>1. Walks(f, h, 0, at)
    BY DEF Walks
  <2> HIDE DEF at
  <2> QED
    BY <2>1
<1>2. ASSUME NEW n \in Nat, n \in S PROVE n + 1 \in S
  <2>1. PICK at : Walks(f, h, n, at)
    BY <1>2
  <2> DEFINE longer == [i \in 0..n + 1 |-> IF i = n + 1 THEN f[at[n]] ELSE at[i]]
  <2>2. ASSUME NEW i \in 0..n + 1
        PROVE  longer[i] = IF i = 0 THEN h ELSE f[longer[i - 1]]
    <3>1. i # n + 1 => at[i] = IF i = 0 THEN h ELSE f[at[i - 1]]
      BY <2>1 DEF Walks
    <3>2. i # 0 => i - 1 \in 0..n + 1 /\ longer[i - 1] = at[i - 1]
      OBVIOUS
    <3> QED
      BY <3>1, <3>2
  <2>3. Walks(f, h, n + 1, longer)
    BY <2>2 DEF Walks
  <2> HIDE DEF longer
  <2> QED
    BY <2>3
<1> HIDE DEF S
<1>3. Nat \subseteq S
  BY <1>1, <1>2, NumberInduction
<1> QED
  BY <1>3 DEF S

\* A ring has no more elements than there are links.
LEMMA RingLength ==
  ASSUME NEW s \in Seq(Links), Distinct(s)
  PROVE  Len(s) <= Cardinality(Links) /\ Cardinality(Links) \in Nat
<1>1. IsFiniteSet(Links)
  BY ListAssumption
<1>2. s \in Injection(1..Len(s), Links)
  BY DEF Distinct, Injection, IsInjective
<1>3. Cardinality(1..Len(s)) <= Cardinality(Links)
  BY <1>1, <1>2, FS_Injection
<1>4. Len(s) \in Nat
  OBVIOUS
<1>5. Cardinality(1..Len(s)) = Len(s)
  BY <1>4, FS_Interval, SMTT(30)
<1> QED
  BY <1>1, <1>3, <1>5, FS_CardinalityType

\* Going round a ring gives its elements.
LEMMA AroundRing ==
  ASSUME NEW f, NEW h \in Heads, NEW s \in Seq(Links), Distinct(s),
         \A i \in 0..Len(s) : f[Node(h, s, i)] = Node(h, s, i + 1)
  PROVE  Around(f, h) = s
<1> DEFINE most == Cardinality(Links) + 1
           n == Len(s)
<1>1. most \in Nat /\ n + 1 <= most /\ n \in Nat
  BY RingLength
<1> HIDE DEF most
<1> DEFINE at == CHOOSE a : Walks(f, h, most, a)
<1>2. \A i \in 0..most : at[i] = IF i = 0 THEN h ELSE f[at[i - 1]]
  <2>1. Walks(f, h, most, at)
    BY <1>1, WalkExists
  <2> HIDE DEF at
  <2> QED
    BY <2>1 DEF Walks
<1> HIDE DEF at
<1> DEFINE T == {i \in 0..n + 1 : at[i] = Node(h, s, i)}
<1>3. 0..n + 1 \subseteq T
  <2>1. 0 \in T
    <3>1. at[0] = h /\ Node(h, s, 0) = h
      BY <1>1, <1>2 DEF Node
    <3> QED
      BY <1>1, <3>1
  <2>2. ASSUME NEW i \in Nat, i < n + 1, i \in T PROVE i + 1 \in T
    <3>1. i + 1 \in 0..most /\ i \in 0..n
      BY <1>1, <2>2
    <3>2. at[i + 1] = f[at[i]]
      <4>1. i + 1 # 0 /\ (i + 1) - 1 = i
        OBVIOUS
      <4> QED
        BY <1>2, <3>1, <4>1
    <3> QED
      BY <2>2, <3>1, <3>2
  <2> HIDE DEF T
  <2> QED
    BY <1>1, <2>1, <2>2, BoundedInduction, SMTT(30)
<1>4. \A i \in 1..n : at[i] = s[i] /\ s[i] # h
  BY <1>1, <1>3, ListAssumption DEF Node
<1>5. at[n + 1] = h
  BY <1>1, <1>3 DEF Node
<1> DEFINE ends == {i \in 1..most : at[i] = h}
           last == IF ends = {} THEN most ELSE Min(ends) - 1
<1>6. last = n
  <2>1. n + 1 \in ends /\ \A i \in ends : n + 1 <= i
    BY <1>1, <1>4, <1>5
  <2>2. ends \subseteq Int
    OBVIOUS
  <2> HIDE DEF ends
  <2>3. \A x \in ends : (\A i \in ends : x <= i) => x = n + 1
    BY <1>1, <2>1, <2>2
  <2>4. Min(ends) = n + 1
    BY <2>1, <2>3 DEF Min
  <2> QED
    BY <1>1, <2>1, <2>4
<1>7. Around(f, h) = [i \in 1..last |-> at[i]]
  BY DEF Around, Walks, most, at
<1> HIDE DEF last
<1>8. s = [i \in 1..n |-> s[i]]
  OBVIOUS
<1> QED
  BY <1>4, <1>6, <1>7, <1>8

\* Going round the other way gives them the other way round.
LEMMA AroundBack ==
  ASSUME NEW f, NEW g, NEW h \in Heads, NEW s \in Seq(Links), Distinct(s), Ring(f, g, h, s)
  PROVE  Around(g, h) = Reverse(s)
<1> DEFINE n == Len(s)
           r == Reverse(s)
<1>1. n \in Nat /\ r \in Seq(Links) /\ Len(r) = n /\ \A i \in 1..n : r[i] = s[n - i + 1]
  BY DEF Reverse
<1>2. Distinct(r)
  BY <1>1, SMTT(60) DEF Distinct
<1>3. \A i \in 0..n + 1 : Node(h, r, i) = Node(h, s, n + 1 - i)
  BY <1>1 DEF Node
<1>4. ASSUME NEW i \in 0..n PROVE g[Node(h, r, i)] = Node(h, r, i + 1)
  <2>1. n - i \in 0..n /\ (n - i) + 1 = n + 1 - i /\ n - i = n + 1 - (i + 1)
    BY <1>1
  <2>2. g[Node(h, s, (n - i) + 1)] = Node(h, s, n - i)
    BY <2>1 DEF Ring
  <2>3. Node(h, r, i) = Node(h, s, n + 1 - i) /\ Node(h, r, i + 1) = Node(h, s, n + 1 - (i + 1))
    BY <1>1, <1>3
  <2> QED
    BY <2>1, <2>2, <2>3
<1> HIDE DEF r
<1> QED
  BY <1>1, <1>2, <1>4, AroundRing DEF r

\* Rings determine what the heads hold.
LEMMA RingsAre ==
  ASSUME NEW f, NEW g, NEW c, Rings(f, g, c), NEW h \in Heads
  PROVE  Around(f, h) = c[h] /\ Around(g, h) = Reverse(c[h])
<1>1. c[h] \in Seq(Links) /\ Distinct(c[h]) /\ Ring(f, g, h, c[h])
  BY DEF Rings
<1>2. \A i \in 0..Len(c[h]) : f[Node(h, c[h], i)] = Node(h, c[h], i + 1)
  BY <1>1 DEF Ring
<1> QED
  BY <1>1, <1>2, AroundRing, AroundBack

-----------------------------------------------------------------------------
(* Nodes *)

\* The nodes of the rings are nodes of the program.
LEMMA NodesIn ==
  ASSUME NEW h \in Heads, NEW s \in Seq(Links), NEW i \in Int
  PROVE  Node(h, s, i) \in Nodes
BY DEF Node, Nodes

\* No node comes twice, in whichever ring.
LEMMA NodesApart ==
  ASSUME NEW f, NEW g, NEW c, Rings(f, g, c), NEW h \in Heads, NEW o \in Heads,
         NEW i \in 0..Len(c[h]), NEW j \in 0..Len(c[o])
  PROVE  /\ Node(h, c[h], i) = Node(o, c[o], j) => h = o /\ i = j
         /\ Node(h, c[h], i + 1) = Node(o, c[o], j + 1) => h = o /\ i = j
<1>1. c[h] \in Seq(Links) /\ c[o] \in Seq(Links) /\ Distinct(c[h])
  BY DEF Rings
<1>2. Links \cap Heads = {} /\ (h # o => Apart(c[h], c[o]))
  BY ListAssumption DEF Rings
<1>3. CASE h = o
  BY <1>1, <1>2, <1>3 DEF Node, Distinct
<1>4. CASE h # o
  BY <1>1, <1>2, <1>4 DEF Node, Apart
<1> QED
  BY <1>3, <1>4

\* A link that is in no ring is none of the nodes.
LEMMA NodesOthers ==
  ASSUME NEW h \in Heads, NEW s \in Seq(Links), NEW i \in Int,
         NEW l \in Links, \A j \in 1..Len(s) : s[j] # l
  PROVE  Node(h, s, i) # l
BY ListAssumption DEF Node

\* The nodes with a link inserted behind the i-th.
Inserted(h, s, i, l, t) ==
    /\ t \in Seq(Links) /\ Len(t) = Len(s) + 1
    /\ \A j \in 0..Len(s) + 2 :
          Node(h, t, j) = IF j <= i THEN Node(h, s, j)
                          ELSE IF j = i + 1 THEN l ELSE Node(h, s, j - 1)
    /\ \A j \in 1..Len(t) : t[j] = l \/ \E k \in 1..Len(s) : t[j] = s[k]
    /\ Distinct(s) => Distinct(t)

\* InsertAt inserts it.
LEMMA InsertNodes ==
  ASSUME NEW h \in Heads, NEW s \in Seq(Links), NEW i \in 0..Len(s),
         NEW l \in Links, \A j \in 1..Len(s) : s[j] # l,
         NEW t, t = InsertAt(s, i + 1, l)
  PROVE  Inserted(h, s, i, l, t)
<1> DEFINE a == SubSeq(s, 1, i)
           b == SubSeq(s, i + 1, Len(s))
           u == a \o <<l>>
           w == u \o b
<1>1. a \in Seq(Links) /\ Len(a) = i /\ \A j \in 1..i : a[j] = s[j]
  OBVIOUS
<1>2. b \in Seq(Links) /\ Len(b) = Len(s) - i /\ \A j \in 1..Len(s) - i : b[j] = s[j + i]
  OBVIOUS
<1>3. t = w
  <2>1. (i + 1) - 1 = i
    OBVIOUS
  <2> QED
    BY <2>1 DEF InsertAt
<1> HIDE DEF a, b
<1>4. /\ u \in Seq(Links) /\ Len(u) = i + 1
      /\ \A j \in 1..i + 1 : u[j] = IF j = i + 1 THEN l ELSE s[j]
  BY <1>1
<1> HIDE DEF u
<1>5. w \in Seq(Links) /\ Len(w) = Len(s) + 1
  <2>1. u \o b \in Seq(Links) /\ Len(u \o b) = Len(u) + Len(b)
    BY <1>2, <1>4, ConcatProperties
  <2> QED
    BY <1>2, <1>4, <2>1
<1>6. ASSUME NEW j \in 1..Len(s) + 1
      PROVE  w[j] = IF j <= i THEN s[j] ELSE IF j = i + 1 THEN l ELSE s[j - 1]
  <2>1. w[j] = IF j <= Len(u) THEN u[j] ELSE b[j - Len(u)]
    BY <1>2, <1>4
  <2>2. j > i + 1 => j - (i + 1) \in 1..Len(s) - i /\ (j - (i + 1)) + i = j - 1
    OBVIOUS
  <2> HIDE DEF w
  <2> QED
    BY <1>2, <1>4, <2>1, <2>2
<1> HIDE DEF w
<1> USE <1>3
<1>7. \A j \in 0..Len(s) + 2 :
          Node(h, t, j) = IF j <= i THEN Node(h, s, j)
                          ELSE IF j = i + 1 THEN l ELSE Node(h, s, j - 1)
  BY <1>5, <1>6 DEF Node
<1> DEFINE old(j) == IF j <= i THEN j ELSE j - 1
<1>8. \A j \in 1..Len(t) : IF j = i + 1 THEN t[j] = l
                           ELSE old(j) \in 1..Len(s) /\ t[j] = s[old(j)]
  BY <1>5, <1>6
<1>9. \A j, k \in 1..Len(t) \ {i + 1} : old(j) = old(k) => j = k
  BY <1>5
<1> HIDE DEF old
<1>10. Distinct(s) => Distinct(t)
  <2> SUFFICES ASSUME Distinct(s), NEW j \in 1..Len(t), NEW k \in 1..Len(t), t[j] = t[k]
               PROVE  j = k
    BY DEF Distinct
  <2>1. CASE j = i + 1 \/ k = i + 1
    BY <1>8, <2>1
  <2>2. CASE j # i + 1 /\ k # i + 1
    BY <1>8, <1>9, <2>2 DEF Distinct
  <2> QED
    BY <2>1, <2>2
<1> QED
  BY <1>5, <1>7, <1>8, <1>10 DEF Inserted

\* The nodes without the i-th.
Removed(h, s, i, t) ==
    /\ t \in Seq(Links) /\ Len(t) = Len(s) - 1
    /\ \A j \in 0..Len(s) :
          Node(h, t, j) = IF j < i THEN Node(h, s, j) ELSE Node(h, s, j + 1)
    /\ \A j \in 1..Len(t) : \E k \in 1..Len(s) : t[j] = s[k]
    /\ Distinct(s) => Distinct(t)

\* RemoveAt removes it.
LEMMA RemoveNodes ==
  ASSUME NEW h \in Heads, NEW s \in Seq(Links), NEW i \in 1..Len(s),
         NEW t, t = RemoveAt(s, i)
  PROVE  Removed(h, s, i, t)
<1> DEFINE a == SubSeq(s, 1, i - 1)
           b == SubSeq(s, i + 1, Len(s))
<1>1. a \in Seq(Links) /\ Len(a) = i - 1 /\ \A j \in 1..i - 1 : a[j] = s[j]
  OBVIOUS
<1>2. b \in Seq(Links) /\ Len(b) = Len(s) - i /\ \A j \in 1..Len(s) - i : b[j] = s[j + i]
  OBVIOUS
<1>3. t = a \o b
  BY DEF RemoveAt
<1> HIDE DEF a, b
<1>4. t \in Seq(Links) /\ Len(t) = Len(s) - 1
  <2>1. t \in Seq(Links) /\ Len(t) = Len(a) + Len(b)
    BY <1>1, <1>2, <1>3, ConcatProperties
  <2> QED
    BY <1>1, <1>2, <2>1
<1>5. \A j \in 1..Len(s) - 1 : t[j] = IF j < i THEN s[j] ELSE s[j + 1]
  BY <1>1, <1>2, <1>3
<1>6. \A j \in 0..Len(s) :
          Node(h, t, j) = IF j < i THEN Node(h, s, j) ELSE Node(h, s, j + 1)
  BY <1>4, <1>5 DEF Node
<1> DEFINE old(j) == IF j < i THEN j ELSE j + 1
<1>7. \A j \in 1..Len(t) : old(j) \in 1..Len(s) /\ t[j] = s[old(j)]
  BY <1>4, <1>5
<1>8. \A j, k \in 1..Len(t) : old(j) = old(k) => j = k
  BY <1>4
<1> HIDE DEF old
<1>9. Distinct(s) => Distinct(t)
  <2> SUFFICES ASSUME Distinct(s), NEW j \in 1..Len(t), NEW k \in 1..Len(t), t[j] = t[k]
               PROVE  j = k
    BY DEF Distinct
  <2> QED
    BY <1>7, <1>8, SMTT(60) DEF Distinct
<1> QED
  BY <1>4, <1>6, <1>7, <1>9 DEF Removed

-----------------------------------------------------------------------------
(* What the pointer assignments do to the rings *)

\* Link: the new link is behind the i-th node.
LEMMA LinkRings ==
  ASSUME NEW f, NEW g, NEW c, Rings(f, g, c), NEW h \in Heads, NEW i \in 0..Len(c[h]),
         NEW l \in Links, \A o \in Heads : \A j \in 1..Len(c[o]) : c[o][j] # l,
         NEW at, at = Node(h, c[h], i)
  PROVE  Rings([f EXCEPT ![l] = f[at], ![at] = l],
               [g EXCEPT ![l] = at, ![f[at]] = l],
               [c EXCEPT ![h] = InsertAt(c[h], i + 1, l)])
<1> DEFINE s == c[h]
           t == InsertAt(s, i + 1, l)
           f2 == [f EXCEPT ![l] = f[at], ![at] = l]
           g2 == [g EXCEPT ![l] = at, ![f[at]] = l]
           d == [c EXCEPT ![h] = t]
           behind == Node(h, s, i + 1)
<1>1. /\ f \in [Nodes -> Nodes] /\ g \in [Nodes -> Nodes] /\ c \in [Heads -> Seq(Links)]
      /\ \A o \in Heads : Ring(f, g, o, c[o]) /\ Distinct(c[o])
      /\ \A o, p \in Heads : o # p => Apart(c[o], c[p])
  BY DEF Rings
<1>2. s \in Seq(Links) /\ i \in 0..Len(s) /\ f[at] = behind /\ l \in Nodes
  BY <1>1 DEF Ring, Nodes
<1>3. at \in Nodes /\ behind \in Nodes /\ at # l /\ behind # l
  BY <1>2, NodesIn, NodesOthers
<1>4. /\ t \in Seq(Links) /\ Len(t) = Len(s) + 1
      /\ \A j \in 0..Len(s) + 2 :
            Node(h, t, j) = IF j <= i THEN Node(h, s, j)
                            ELSE IF j = i + 1 THEN l ELSE Node(h, s, j - 1)
      /\ \A j \in 1..Len(t) : t[j] = l \/ \E k \in 1..Len(s) : t[j] = s[k]
      /\ Distinct(s) => Distinct(t)
  <2>1. \A j \in 1..Len(s) : s[j] # l
    OBVIOUS
  <2>2. t = InsertAt(s, i + 1, l)
    OBVIOUS
  <2> HIDE DEF s, t
  <2>3. Inserted(h, s, i, l, t)
    BY <1>2, <2>1, <2>2, InsertNodes
  <2> QED
    BY <2>3 DEF Inserted
<1>5. /\ f2 \in [Nodes -> Nodes] /\ g2 \in [Nodes -> Nodes]
      /\ f2[at] = l /\ f2[l] = behind /\ g2[behind] = l /\ g2[l] = at
      /\ \A x \in Nodes : x # at /\ x # l => f2[x] = f[x]
      /\ \A x \in Nodes : x # behind /\ x # l => g2[x] = g[x]
  BY <1>1, <1>2, <1>3
<1>6. d \in [Heads -> Seq(Links)] /\ d[h] = t /\ \A o \in Heads \ {h} : d[o] = c[o]
  BY <1>1, <1>4
<1> HIDE DEF t, f2, g2, d
<1>7. ASSUME NEW o \in Heads, NEW j \in 0..Len(c[o]), o # h \/ j # i
      PROVE  /\ f2[Node(o, c[o], j)] = Node(o, c[o], j + 1)
             /\ g2[Node(o, c[o], j + 1)] = Node(o, c[o], j)
  <2>1. /\ f[Node(o, c[o], j)] = Node(o, c[o], j + 1)
        /\ g[Node(o, c[o], j + 1)] = Node(o, c[o], j)
    BY <1>1 DEF Ring
  <2>2. /\ Node(o, c[o], j) \in Nodes /\ Node(o, c[o], j) # l
        /\ Node(o, c[o], j + 1) \in Nodes /\ Node(o, c[o], j + 1) # l
    BY <1>1, NodesIn, NodesOthers
  <2>3. Node(o, c[o], j) # at /\ Node(o, c[o], j + 1) # behind
    BY <1>7, NodesApart
  <2> QED
    BY <1>5, <2>1, <2>2, <2>3
<1>8. Ring(f2, g2, h, t)
  <2> DEFINE N(k) == Node(h, s, k)
             M(k) == Node(h, t, k)
  <2>1. \A k \in 0..Len(s) + 2 : M(k) = IF k <= i THEN N(k) ELSE IF k = i + 1 THEN l ELSE N(k - 1)
    BY <1>4
  <2>2. \A k \in 0..Len(s) : k # i => f2[N(k)] = N(k + 1) /\ g2[N(k + 1)] = N(k)
    BY <1>7
  <2>3. N(i) = at /\ N(i + 1) = behind
    OBVIOUS
  <2> HIDE DEF N, M
  <2>4. ASSUME NEW j \in 0..Len(s) + 1 PROVE f2[M(j)] = M(j + 1) /\ g2[M(j + 1)] = M(j)
    <3>1. CASE j < i
      BY <1>2, <2>1, <2>2, <3>1, SMTT(60)
    <3>2. CASE j = i
      BY <1>2, <1>5, <2>1, <2>3, <3>2
    <3>3. CASE j = i + 1
      BY <1>2, <1>5, <2>1, <2>3, <3>3
    <3>4. CASE j > i + 1
      <4>1. /\ M(j) = N(j - 1) /\ M(j + 1) = N(j)
            /\ j - 1 \in 0..Len(s) /\ j - 1 # i /\ (j - 1) + 1 = j
        BY <1>2, <2>1, <3>4
      <4> QED
        BY <2>2, <4>1
    <3> QED
      BY <1>2, <3>1, <3>2, <3>3, <3>4
  <2> QED
    BY <1>4, <2>4 DEF Ring, M
<1>9. Distinct(t)
  BY <1>1, <1>4
<1>10. ASSUME NEW o \in Heads \ {h} PROVE Ring(f2, g2, o, c[o]) /\ Apart(t, c[o]) /\ Apart(c[o], t)
  <2>1. Ring(f2, g2, o, c[o])
    BY <1>7 DEF Ring
  <2>2. Apart(s, c[o]) /\ \A k \in 1..Len(c[o]) : c[o][k] # l
    BY <1>1
  <2>3. ASSUME NEW j \in 1..Len(t), NEW k \in 1..Len(c[o]) PROVE t[j] # c[o][k]
    <3>1. CASE t[j] = l
      BY <2>2, <3>1
    <3>2. CASE t[j] # l
      <4>1. PICK m \in 1..Len(s) : t[j] = s[m]
        BY <1>4, <3>2
      <4> QED
        BY <2>2, <4>1 DEF Apart
    <3> QED
      BY <3>1, <3>2
  <2> QED
    BY <2>1, <2>3 DEF Apart
<1>11. \A o, p \in Heads : o # p => Apart(d[o], d[p])
  <2> SUFFICES ASSUME NEW o \in Heads, NEW p \in Heads, o # p PROVE Apart(d[o], d[p])
    OBVIOUS
  <2>1. CASE o = h
    BY <1>6, <1>10, <2>1
  <2>2. CASE p = h
    BY <1>6, <1>10, <2>2
  <2>3. CASE o # h /\ p # h
    BY <1>1, <1>6, <2>3
  <2> QED
    BY <2>1, <2>2, <2>3
<1>12. \A o \in Heads : Ring(f2, g2, o, d[o]) /\ Distinct(d[o])
  BY <1>1, <1>6, <1>8, <1>9, <1>10
<1> QED
  BY <1>5, <1>6, <1>11, <1>12 DEF Rings, f2, g2, d, t

\* Unlink: without the i-th node.
LEMMA UnlinkRings ==
  ASSUME NEW f, NEW g, NEW c, Rings(f, g, c), NEW h \in Heads, NEW i \in 1..Len(c[h]),
         NEW l, l = c[h][i]
  PROVE  Rings([f EXCEPT ![g[l]] = f[l]], [g EXCEPT ![f[l]] = g[l]],
               [c EXCEPT ![h] = RemoveAt(c[h], i)])
<1> DEFINE s == c[h]
           t == RemoveAt(s, i)
           before == Node(h, s, i - 1)
           behind == Node(h, s, i + 1)
           f2 == [f EXCEPT ![g[l]] = f[l]]
           g2 == [g EXCEPT ![f[l]] = g[l]]
           d == [c EXCEPT ![h] = t]
<1>1. /\ f \in [Nodes -> Nodes] /\ g \in [Nodes -> Nodes] /\ c \in [Heads -> Seq(Links)]
      /\ \A o \in Heads : Ring(f, g, o, c[o]) /\ Distinct(c[o])
      /\ \A o, p \in Heads : o # p => Apart(c[o], c[p])
  BY DEF Rings
<1>2. s \in Seq(Links) /\ i \in 1..Len(s) /\ l = Node(h, s, i)
  BY <1>1 DEF Node
<1>3. g[l] = before /\ f[l] = behind /\ before \in Nodes /\ behind \in Nodes
  <2>1. i - 1 \in 0..Len(s) /\ (i - 1) + 1 = i /\ i \in 0..Len(s)
    BY <1>2
  <2>2. g[l] = before /\ f[l] = behind
    BY <1>1, <1>2, <2>1 DEF Ring
  <2> QED
    BY <1>2, <2>2, NodesIn
<1>4. /\ t \in Seq(Links) /\ Len(t) = Len(s) - 1
      /\ \A j \in 0..Len(s) :
            Node(h, t, j) = IF j < i THEN Node(h, s, j) ELSE Node(h, s, j + 1)
      /\ \A j \in 1..Len(t) : \E k \in 1..Len(s) : t[j] = s[k]
      /\ Distinct(s) => Distinct(t)
  <2>1. t = RemoveAt(s, i)
    OBVIOUS
  <2> HIDE DEF s, t
  <2>3. Removed(h, s, i, t)
    BY <1>2, <2>1, RemoveNodes
  <2> QED
    BY <2>3 DEF Removed
<1>5. /\ f2 \in [Nodes -> Nodes] /\ g2 \in [Nodes -> Nodes]
      /\ f2[before] = behind /\ g2[behind] = before
      /\ \A x \in Nodes : x # before => f2[x] = f[x]
      /\ \A x \in Nodes : x # behind => g2[x] = g[x]
  BY <1>1, <1>3
<1>6. d \in [Heads -> Seq(Links)] /\ d[h] = t /\ \A o \in Heads \ {h} : d[o] = c[o]
  BY <1>1, <1>4
<1> HIDE DEF t, f2, g2, d
<1>7. ASSUME NEW o \in Heads, NEW j \in 0..Len(c[o]), o # h \/ j \notin {i - 1, i}
      PROVE  /\ f2[Node(o, c[o], j)] = Node(o, c[o], j + 1)
             /\ g2[Node(o, c[o], j + 1)] = Node(o, c[o], j)
  <2>1. /\ f[Node(o, c[o], j)] = Node(o, c[o], j + 1)
        /\ g[Node(o, c[o], j + 1)] = Node(o, c[o], j)
    BY <1>1 DEF Ring
  <2>2. Node(o, c[o], j) \in Nodes /\ Node(o, c[o], j + 1) \in Nodes
    BY <1>1, NodesIn
  <2>3. i - 1 \in 0..Len(s) /\ i \in 0..Len(s)
    BY <1>2
  <2>4. Node(o, c[o], j) # before /\ Node(o, c[o], j + 1) # behind
    BY <1>7, <2>3, NodesApart
  <2> QED
    BY <1>5, <2>1, <2>2, <2>4
<1>8. Ring(f2, g2, h, t)
  <2> DEFINE N(k) == Node(h, s, k)
             M(k) == Node(h, t, k)
  <2>1. \A k \in 0..Len(s) : M(k) = IF k < i THEN N(k) ELSE N(k + 1)
    BY <1>4
  <2>2. \A k \in 0..Len(s) : k \notin {i - 1, i} => f2[N(k)] = N(k + 1) /\ g2[N(k + 1)] = N(k)
    BY <1>7
  <2>3. N(i - 1) = before /\ N(i + 1) = behind
    OBVIOUS
  <2> HIDE DEF N, M
  <2>4. ASSUME NEW j \in 0..Len(s) - 1 PROVE f2[M(j)] = M(j + 1) /\ g2[M(j + 1)] = M(j)
    <3>1. CASE j < i - 1
      BY <1>2, <2>1, <2>2, <3>1
    <3>2. CASE j = i - 1
      <4>1. M(j) = before /\ M(j + 1) = behind
        BY <1>2, <2>1, <2>3, <3>2
      <4> QED
        BY <1>5, <4>1
    <3>3. CASE j > i - 1
      <4>1. /\ M(j) = N(j + 1) /\ M(j + 1) = N((j + 1) + 1)
            /\ j + 1 \in 0..Len(s) /\ j + 1 \notin {i - 1, i}
        BY <1>2, <2>1, <3>3
      <4> QED
        BY <2>2, <4>1
    <3> QED
      BY <1>2, <3>1, <3>2, <3>3
  <2> QED
    BY <1>4, <2>4 DEF Ring, M
<1>9. Distinct(t)
  BY <1>1, <1>4
<1>10. ASSUME NEW o \in Heads \ {h} PROVE Ring(f2, g2, o, c[o]) /\ Apart(t, c[o]) /\ Apart(c[o], t)
  <2>1. Ring(f2, g2, o, c[o])
    BY <1>7 DEF Ring
  <2>2. Apart(s, c[o]) /\ Apart(c[o], s)
    BY <1>1
  <2> QED
    BY <1>4, <2>1, <2>2 DEF Apart
<1>11. \A o, p \in Heads : o # p => Apart(d[o], d[p])
  <2> SUFFICES ASSUME NEW o \in Heads, NEW p \in Heads, o # p PROVE Apart(d[o], d[p])
    OBVIOUS
  <2>1. CASE o = h
    BY <1>6, <1>10, <2>1
  <2>2. CASE p = h
    BY <1>6, <1>10, <2>2
  <2>3. CASE o # h /\ p # h
    BY <1>1, <1>6, <2>3
  <2> QED
    BY <2>1, <2>2, <2>3
<1>12. \A o \in Heads : Ring(f2, g2, o, d[o]) /\ Distinct(d[o])
  BY <1>1, <1>6, <1>8, <1>9, <1>10
<1> QED
  BY <1>5, <1>6, <1>11, <1>12 DEF Rings, f2, g2, d, t

\* Reset: an empty ring, whatever the pointers of the links that were in it.
LEMMA ResetRings ==
  ASSUME NEW f, NEW g, NEW c, Rings(f, g, c), NEW h \in Heads
  PROVE  Rings([f EXCEPT ![h] = h], [g EXCEPT ![h] = h], [c EXCEPT ![h] = <<>>])
<1> DEFINE f2 == [f EXCEPT ![h] = h]
           g2 == [g EXCEPT ![h] = h]
           d == [c EXCEPT ![h] = <<>>]
<1>1. /\ f \in [Nodes -> Nodes] /\ g \in [Nodes -> Nodes] /\ c \in [Heads -> Seq(Links)]
      /\ \A o \in Heads : Ring(f, g, o, c[o]) /\ Distinct(c[o])
      /\ \A o, p \in Heads : o # p => Apart(c[o], c[p])
  BY DEF Rings
<1>2. /\ f2 \in [Nodes -> Nodes] /\ g2 \in [Nodes -> Nodes] /\ f2[h] = h /\ g2[h] = h
      /\ \A x \in Nodes \ {h} : f2[x] = f[x] /\ g2[x] = g[x]
  BY <1>1 DEF Nodes
<1>3. d \in [Heads -> Seq(Links)] /\ d[h] = <<>> /\ \A o \in Heads \ {h} : d[o] = c[o]
  BY <1>1
<1> HIDE DEF f2, g2, d
<1>4. Ring(f2, g2, h, <<>>) /\ Distinct(<<>>)
  BY <1>2 DEF Ring, Node, Distinct
<1>5. ASSUME NEW o \in Heads \ {h} PROVE Ring(f2, g2, o, c[o])
  <2> SUFFICES ASSUME NEW j \in 0..Len(c[o])
               PROVE  /\ f2[Node(o, c[o], j)] = Node(o, c[o], j + 1)
                      /\ g2[Node(o, c[o], j + 1)] = Node(o, c[o], j)
    BY DEF Ring
  <2>1. /\ f[Node(o, c[o], j)] = Node(o, c[o], j + 1)
        /\ g[Node(o, c[o], j + 1)] = Node(o, c[o], j)
    BY <1>1 DEF Ring
  <2>2. c[o] \in Seq(Links) /\ h \notin Links /\ o # h
    BY <1>1, ListAssumption
  <2>3. Node(o, c[o], j) \in Nodes \ {h} /\ Node(o, c[o], j + 1) \in Nodes \ {h}
    BY <2>2 DEF Node, Nodes
  <2> QED
    BY <1>2, <2>1, <2>3
<1>6. \A o, p \in Heads : o # p => Apart(d[o], d[p])
  <2> SUFFICES ASSUME NEW o \in Heads, NEW p \in Heads, o # p PROVE Apart(d[o], d[p])
    OBVIOUS
  <2>1. CASE o = h \/ p = h
    BY <1>3, <2>1 DEF Apart
  <2>2. CASE o # h /\ p # h
    BY <1>1, <1>3, <2>2
  <2> QED
    BY <2>1, <2>2
<1>7. \A o \in Heads : Ring(f2, g2, o, d[o]) /\ Distinct(d[o])
  BY <1>1, <1>3, <1>4, <1>5
<1> QED
  BY <1>2, <1>3, <1>6, <1>7 DEF Rings, f2, g2, d

\* list_merge(): the empty ring of h takes over the nodes of another one.
LEMMA MergeRings ==
  ASSUME NEW f, NEW g, NEW c, Rings(f, g, c), NEW h \in Heads, NEW o \in Heads \ {h},
         c[h] = <<>>, c[o] # <<>>
  PROVE  Rings([f EXCEPT ![g[o]] = h, ![h] = f[o], ![o] = o],
               [g EXCEPT ![f[o]] = h, ![h] = g[o], ![o] = o],
               [c EXCEPT ![h] = c[o], ![o] = <<>>])
<1> DEFINE s == c[o]
           f2 == [f EXCEPT ![g[o]] = h, ![h] = f[o], ![o] = o]
           g2 == [g EXCEPT ![f[o]] = h, ![h] = g[o], ![o] = o]
           d == [c EXCEPT ![h] = s, ![o] = <<>>]
<1>1. /\ f \in [Nodes -> Nodes] /\ g \in [Nodes -> Nodes] /\ c \in [Heads -> Seq(Links)]
      /\ \A p \in Heads : Ring(f, g, p, c[p]) /\ Distinct(c[p])
      /\ \A p, q \in Heads : p # q => Apart(c[p], c[q])
  BY DEF Rings
<1>2. /\ s \in Seq(Links) /\ Len(s) \in Nat \ {0} /\ Links \cap Heads = {}
      /\ s[1] \in Links /\ s[Len(s)] \in Links
  BY <1>1, ListAssumption
<1>3. f[o] = s[1] /\ g[o] = s[Len(s)]
  <2>1. 0 \in 0..Len(s) /\ Len(s) \in 0..Len(s) /\ 0 + 1 = 1
    BY <1>2
  <2>2. Ring(f, g, o, s)
    BY <1>1
  <2>3. f[Node(o, s, 0)] = Node(o, s, 1) /\ g[Node(o, s, Len(s) + 1)] = Node(o, s, Len(s))
    BY <2>1, <2>2 DEF Ring
  <2> QED
    BY <1>2, <2>3 DEF Node
<1>4. /\ f2 \in [Nodes -> Nodes] /\ g2 \in [Nodes -> Nodes]
      /\ f2[o] = o /\ f2[h] = s[1] /\ f2[s[Len(s)]] = h
      /\ g2[o] = o /\ g2[h] = s[Len(s)] /\ g2[s[1]] = h
      /\ \A x \in Nodes \ {o, h, s[Len(s)]} : f2[x] = f[x]
      /\ \A x \in Nodes \ {o, h, s[1]} : g2[x] = g[x]
  BY <1>1, <1>2, <1>3 DEF Nodes
<1>5. d \in [Heads -> Seq(Links)] /\ d[h] = s /\ d[o] = <<>> /\ \A p \in Heads \ {h, o} : d[p] = c[p]
  BY <1>1
<1> HIDE DEF f2, g2, d
<1>6. Ring(f2, g2, o, <<>>) /\ Distinct(<<>>)
  BY <1>4 DEF Ring, Node, Distinct
<1>7. \A i \in 1..Len(s) - 1 : f[s[i]] = s[i + 1] /\ g[s[i + 1]] = s[i]
  <2>1. Ring(f, g, o, s)
    BY <1>1
  <2> QED
    BY <1>2, <2>1, SMTT(60) DEF Ring, Node
<1>8. Ring(f2, g2, h, s)
  <2> SUFFICES ASSUME NEW j \in 0..Len(s)
               PROVE  /\ f2[Node(h, s, j)] = Node(h, s, j + 1)
                      /\ g2[Node(h, s, j + 1)] = Node(h, s, j)
    BY DEF Ring
  <2> HIDE DEF s
  <2>1. CASE j = 0
    BY <1>2, <1>4, <2>1 DEF Node
  <2>2. CASE j = Len(s)
    BY <1>2, <1>4, <2>2 DEF Node
  <2>3. CASE j \in 1..Len(s) - 1
    <3>1. Node(h, s, j) = s[j] /\ Node(h, s, j + 1) = s[j + 1]
      BY <1>2, <2>3 DEF Node
    <3>2. s[j] \in Links /\ s[j + 1] \in Links /\ s[j] # s[Len(s)] /\ s[j + 1] # s[1]
      BY <1>1, <1>2, <2>3 DEF Distinct, s
    <3> QED
      BY <1>2, <1>4, <1>7, <2>3, <3>1, <3>2 DEF Nodes
  <2> QED
    BY <1>2, <2>1, <2>2, <2>3
<1>9. ASSUME NEW p \in Heads \ {h, o} PROVE Ring(f2, g2, p, c[p])
  <2> SUFFICES ASSUME NEW j \in 0..Len(c[p])
               PROVE  /\ f2[Node(p, c[p], j)] = Node(p, c[p], j + 1)
                      /\ g2[Node(p, c[p], j + 1)] = Node(p, c[p], j)
    BY DEF Ring
  <2>1. /\ f[Node(p, c[p], j)] = Node(p, c[p], j + 1)
        /\ g[Node(p, c[p], j + 1)] = Node(p, c[p], j)
    BY <1>1 DEF Ring
  <2>2. c[p] \in Seq(Links) /\ Apart(c[p], s)
    BY <1>1
  <2>3. \A i \in Int : Node(p, c[p], i) \in Nodes \ {o, h, s[Len(s)], s[1]}
    <3>1. p # o /\ p # h /\ 1 \in 1..Len(s) /\ Len(s) \in 1..Len(s)
      BY <1>2
    <3>2. \A i \in 1..Len(c[p]) : c[p][i] \in Links /\ c[p][i] # s[Len(s)] /\ c[p][i] # s[1]
      BY <2>2, <3>1 DEF Apart
    <3> HIDE DEF s
    <3> QED
      BY <1>2, <3>1, <3>2 DEF Node, Nodes
  <2> QED
    BY <1>4, <2>1, <2>3
<1>10. \A p, q \in Heads : p # q => Apart(d[p], d[q])
  <2> SUFFICES ASSUME NEW p \in Heads, NEW q \in Heads, p # q PROVE Apart(d[p], d[q])
    OBVIOUS
  <2>1. CASE p = o \/ q = o
    BY <1>5, <2>1 DEF Apart
  <2>2. CASE p = h /\ q # o
    BY <1>1, <1>5, <2>2
  <2>3. CASE q = h /\ p # o
    BY <1>1, <1>5, <2>3
  <2>4. CASE p \notin {h, o} /\ q \notin {h, o}
    BY <1>1, <1>5, <2>4
  <2> QED
    BY <2>1, <2>2, <2>3, <2>4
<1>11. \A p \in Heads : Ring(f2, g2, p, d[p]) /\ Distinct(d[p])
  <2> SUFFICES ASSUME NEW p \in Heads PROVE Ring(f2, g2, p, d[p]) /\ Distinct(d[p])
    OBVIOUS
  <2>1. CASE p = h
    BY <1>1, <1>5, <1>8, <2>1
  <2>2. CASE p = o
    BY <1>5, <1>6, <2>2
  <2>3. CASE p \notin {h, o}
    BY <1>1, <1>5, <1>9, <2>3
  <2> QED
    BY <2>1, <2>2, <2>3
<1> QED
  BY <1>4, <1>5, <1>10, <1>11 DEF Rings, f2, g2, d

-----------------------------------------------------------------------------
(* Steps *)

\* Rings say what every head holds after a step.
LEMMA Holds ==
  ASSUME NEW d, Rings(next', prev', d)
  PROVE  Contents' = d /\ Rings(next', prev', Contents')
<1>1. d \in [Heads -> Seq(Links)]
  BY DEF Rings
<1>2. \A h \in Heads : Around(next', h) = d[h]
  BY RingsAre
<1>3. Contents' = [h \in Heads |-> Around(next', h)]
  BY DEF Contents, Elements
<1>4. Contents' = d
  BY <1>1, <1>2, <1>3
<1> QED
  BY <1>4

\* A link that is in no list is none of the elements.
LEMMA Unlisted ==
  ASSUME RingsInv, NEW l \in Links \ Listed
  PROVE  \A o \in Heads : \A j \in 1..Len(Contents[o]) : Contents[o][j] # l
<1> SUFFICES ASSUME NEW o \in Heads, NEW j \in 1..Len(Contents[o]) PROVE Contents[o][j] # l
  OBVIOUS
<1>1. Contents[o] = Elements(o) /\ Contents[o] \in Seq(Links)
  BY DEF Contents, RingsInv, Rings
<1>2. Elements(o)[j] \in ToSet(Elements(o))
  BY <1>1 DEF ToSet
<1> QED
  BY <1>1, <1>2 DEF Listed

\* An element of a list has a place in it.
LEMMA Place ==
  ASSUME RingsInv, NEW h \in Heads, NEW l \in ToSet(Elements(h))
  PROVE  \E i \in 1..Len(Contents[h]) : l = Contents[h][i] /\ l = Node(h, Contents[h], i)
<1>1. Contents[h] = Elements(h) /\ Contents[h] \in Seq(Links)
  BY DEF Contents, RingsInv, Rings
<1>2. PICK i \in DOMAIN Elements(h) : l = Elements(h)[i]
  BY DEF ToSet
<1> QED
  BY <1>1, <1>2 DEF Node

\* The ends of a list are what its head points at.
LEMMA Ends ==
  ASSUME RingsInv, NEW h \in Heads
  PROVE  LET s == Contents[h]
         IN  /\ s \in Seq(Links)
             /\ prev[h] = Node(h, s, Len(s))
             /\ s = <<>> => next[h] = h /\ prev[h] = h
             /\ s # <<>> => /\ next[h] = s[1] /\ prev[h] = s[Len(s)]
                            /\ 1 \in 1..Len(s) /\ Len(s) \in 1..Len(s)
<1> DEFINE s == Contents[h]
<1>1. s \in Seq(Links) /\ Ring(next, prev, h, s)
  BY DEF RingsInv, Rings
<1> HIDE DEF s
<1>2. next[Node(h, s, 0)] = Node(h, s, 1) /\ prev[Node(h, s, Len(s) + 1)] = Node(h, s, Len(s))
  <2>1. 0 \in 0..Len(s) /\ Len(s) \in 0..Len(s) /\ 0 + 1 = 1
    BY <1>1
  <2> QED
    BY <1>1, <2>1 DEF Ring
<1>3. Node(h, s, 0) = h /\ Node(h, s, Len(s) + 1) = h
  BY <1>1 DEF Node
<1>4. s # <<>> => 1 \in 1..Len(s) /\ Len(s) \in 1..Len(s)
  BY <1>1
<1>5. s # <<>> => next[h] = s[1] /\ prev[h] = s[Len(s)]
  BY <1>2, <1>3, <1>4 DEF Node
<1>6. s = <<>> => next[h] = h /\ prev[h] = h
  BY <1>2, <1>3 DEF Node
<1> QED
  BY <1>1, <1>2, <1>3, <1>4, <1>5, <1>6 DEF s

\* list_insert(), queue_insert() and stack_insert(): the link behind the i-th node.
LEMMA LinkStep ==
  ASSUME RingsInv, NEW h \in Heads, NEW i \in 0..Len(Contents[h]), NEW l \in Links \ Listed,
         NEW at, at = Node(h, Contents[h], i), Link(at, l)
  PROVE  /\ Contents' = [Contents EXCEPT ![h] = InsertAt(Contents[h], i + 1, l)]
         /\ Rings(next', prev', Contents')
         /\ Contents'[h] = InsertAt(Contents[h], i + 1, l)
         /\ Len(Contents'[h]) = Len(Contents[h]) + 1
<1> DEFINE d == [Contents EXCEPT ![h] = InsertAt(Contents[h], i + 1, l)]
<1>1. /\ next' = [next EXCEPT ![l] = next[at], ![at] = l]
      /\ prev' = [prev EXCEPT ![l] = at, ![next[at]] = l]
  BY DEF Link
<1>2. Rings(next, prev, Contents) /\ Contents \in [Heads -> Seq(Links)]
  BY DEF RingsInv, Rings
<1>3. \A o \in Heads : \A j \in 1..Len(Contents[o]) : Contents[o][j] # l
  BY Unlisted
<1>4. Rings(next', prev', d)
  BY <1>1, <1>2, <1>3, LinkRings
<1>5. d[h] = InsertAt(Contents[h], i + 1, l)
  BY <1>2
<1>6. Inserted(h, Contents[h], i, l, InsertAt(Contents[h], i + 1, l))
  BY <1>2, <1>3, InsertNodes
<1> HIDE DEF d
<1>7. Contents' = d /\ Rings(next', prev', Contents')
  BY <1>4, Holds
<1> QED
  BY <1>5, <1>6, <1>7 DEF d, Inserted

\* list_take() and the calls that take from an end: the i-th element goes.
LEMMA UnlinkStep ==
  ASSUME RingsInv, NEW h \in Heads, NEW i \in 1..Len(Contents[h]),
         NEW l, l = Contents[h][i], Unlink(l)
  PROVE  /\ Contents' = [Contents EXCEPT ![h] = RemoveAt(Contents[h], i)]
         /\ Rings(next', prev', Contents')
         /\ Contents'[h] = RemoveAt(Contents[h], i)
         /\ Len(Contents'[h]) = Len(Contents[h]) - 1
<1> DEFINE d == [Contents EXCEPT ![h] = RemoveAt(Contents[h], i)]
<1>1. /\ next' = [next EXCEPT ![prev[l]] = next[l]]
      /\ prev' = [prev EXCEPT ![next[l]] = prev[l]]
  BY DEF Unlink
<1>2. Rings(next, prev, Contents) /\ Contents \in [Heads -> Seq(Links)]
  BY DEF RingsInv, Rings
<1>3. Rings(next', prev', d)
  BY <1>1, <1>2, UnlinkRings
<1>4. d[h] = RemoveAt(Contents[h], i)
  BY <1>2
<1>5. Removed(h, Contents[h], i, RemoveAt(Contents[h], i))
  BY <1>2, RemoveNodes
<1> HIDE DEF d
<1>6. Contents' = d /\ Rings(next', prev', Contents')
  BY <1>3, Holds
<1> QED
  BY <1>4, <1>5, <1>6 DEF d, Removed

\* list_take_front() and list_take_back() of an empty list change nothing.
LEMMA UnlinkNothing ==
  ASSUME RingsInv, NEW h \in Heads, Contents[h] = <<>>, Unlink(h)
  PROVE  next' = next /\ prev' = prev /\ Contents' = Contents
<1>1. next[h] = h /\ prev[h] = h
  BY Ends
<1>2. next \in [Nodes -> Nodes] /\ prev \in [Nodes -> Nodes]
  BY DEF RingsInv, Rings
<1>3. next' = next /\ prev' = prev
  BY <1>1, <1>2 DEF Unlink
<1> QED
  BY <1>3 DEF Contents, Elements

\* The clear and destroy functions.
LEMMA ResetStep ==
  ASSUME RingsInv, NEW h \in Heads, Reset(h)
  PROVE  /\ Contents' = [Contents EXCEPT ![h] = <<>>]
         /\ Rings(next', prev', Contents')
         /\ Contents'[h] = <<>>
<1>1. Rings(next, prev, Contents) /\ Contents \in [Heads -> Seq(Links)]
  BY DEF RingsInv, Rings
<1>2. Rings(next', prev', [Contents EXCEPT ![h] = <<>>])
  BY <1>1, ResetRings DEF Reset
<1>3. [Contents EXCEPT ![h] = <<>>][h] = <<>>
  BY <1>1
<1> QED
  BY <1>2, <1>3, Holds

\* list_merge().
LEMMA MergeStep ==
  ASSUME RingsInv, NEW h \in Heads, NEW o \in Heads \ {h}, ListMerge(h, o)
  PROVE  /\ Contents' = [Contents EXCEPT ![h] = Contents[o], ![o] = <<>>]
         /\ Rings(next', prev', Contents')
         /\ Contents[h] = <<>>
<1>1. Rings(next, prev, Contents) /\ Contents \in [Heads -> Seq(Links)]
  BY DEF RingsInv, Rings
<1>2. /\ next[h] = h /\ next[o] # o
      /\ next' = [next EXCEPT ![prev[o]] = h, ![h] = next[o], ![o] = o]
      /\ prev' = [prev EXCEPT ![next[o]] = next[h], ![next[h]] = prev[o], ![o] = o]
  BY DEF ListMerge
<1>3. Contents[h] = <<>> /\ Contents[o] # <<>>
  <2>1. Contents[h] # <<>> => next[h] \in Links
    BY Ends
  <2>2. h \notin Links
    BY ListAssumption
  <2>3. Contents[o] = <<>> => next[o] = o
    BY Ends
  <2> QED
    BY <1>2, <2>1, <2>2, <2>3
<1>4. Rings(next', prev', [Contents EXCEPT ![h] = Contents[o], ![o] = <<>>])
  BY <1>1, <1>2, <1>3, MergeRings
<1> QED
  BY <1>3, <1>4, Holds

-----------------------------------------------------------------------------
(* The sequences of Deques *)

\* Inserting into a sequence is a step of Deques.
LEMMA AbstractInsert ==
  ASSUME RingsInv, NEW h \in Heads, NEW i, NEW l \in Links \ Listed, taken' = <<>>,
         Contents' = [Contents EXCEPT ![h] = InsertAt(Contents[h], i, l)]
  PROVE  D!Insert(h, i, l)
<1>1. Contents = [o \in Heads |-> Elements(o)] /\ Contents' = [o \in Heads |-> Elements(o)']
  BY DEF Contents
<1>2. Contents'[h] = InsertAt(Contents[h], i, l)
  BY <1>1
<1>3. \A o \in Heads : l \notin ToSet(Contents[o])
  BY <1>1 DEF Listed
<1>4. D!Free(l)
  BY <1>3 DEF D!Free, D!ToSet, ToSet, D!Heads, Heads, Contents
<1>5. D!Becomes(h, InsertAt(Contents[h], i, l))
  BY <1>1, <1>2 DEF D!Becomes
<1>6. D!InsertAt([o \in Heads |-> Elements(o)][h], i, l) = InsertAt(Contents[h], i, l)
  BY <1>1 DEF D!InsertAt, InsertAt
<1> QED
  BY <1>4, <1>5, <1>6 DEF D!Insert

\* So is taking out of it.
LEMMA AbstractTake ==
  ASSUME NEW h \in Heads, NEW i, taken' = <<Contents[h][i]>>,
         Contents' = [Contents EXCEPT ![h] = RemoveAt(Contents[h], i)]
  PROVE  D!TakeAt(h, i)
<1>1. Contents = [o \in Heads |-> Elements(o)] /\ Contents' = [o \in Heads |-> Elements(o)']
  BY DEF Contents
<1>2. Contents'[h] = RemoveAt(Contents[h], i)
  BY <1>1
<1> QED
  BY <1>1, <1>2 DEF D!TakeAt, D!Becomes, D!RemoveAt, RemoveAt

\* And emptying it.
LEMMA AbstractEmpty ==
  ASSUME NEW h \in Heads, taken' = <<>>, Contents' = [Contents EXCEPT ![h] = <<>>]
  PROVE  D!Empty(h)
<1>1. Contents = [o \in Heads |-> Elements(o)] /\ Contents' = [o \in Heads |-> Elements(o)']
  BY DEF Contents
<1>2. Contents'[h] = <<>>
  BY <1>1
<1> QED
  BY <1>1, <1>2 DEF D!Empty, D!Becomes

\* What the invariant and the refinement need of a step.
Sound ==
    /\ RingsInv'
    /\ [D!Next]_<<Contents, taken>>

\* A step that changes what one head holds, and its size with it, keeps the invariant.
LEMMA SizesKept ==
  ASSUME RingsInv, NEW h \in Heads, NEW t, Rings(next', prev', Contents'),
         Contents' = [Contents EXCEPT ![h] = t],
         \/ h \in Lists /\ size' = size
         \/ h \in Queues \cup Stacks /\ size' = [size EXCEPT ![h] = Len(t)]
  PROVE  RingsInv'
<1>1. Contents \in [Heads -> Seq(Links)] /\ Contents' \in [Heads -> Seq(Links)] /\ Contents'[h] = t
  BY DEF RingsInv, Rings
<1>2. size \in [Queues \cup Stacks -> Nat] /\ \A o \in Queues \cup Stacks : size[o] = Len(Contents[o])
  BY DEF RingsInv
<1>3. Queues \cup Stacks \subseteq Heads /\ Lists \cap (Queues \cup Stacks) = {} /\ Len(t) \in Nat
  BY <1>1, ListAssumption DEF Heads
<1>4. \A o \in Heads \ {h} : Contents'[o] = Contents[o]
  BY <1>1
<1>5. size' \in [Queues \cup Stacks -> Nat] /\ \A o \in Queues \cup Stacks : size'[o] = Len(Contents'[o])
  <2>1. CASE h \in Lists /\ size' = size
    BY <1>2, <1>3, <1>4, <2>1
  <2>2. CASE h \in Queues \cup Stacks /\ size' = [size EXCEPT ![h] = Len(t)]
    BY <1>1, <1>2, <1>3, <1>4, <2>2
  <2> QED
    BY <2>1, <2>2
<1> QED
  BY <1>5 DEF RingsInv

\* The calls of a list.
LEMMA ListInsertStep ==
  ASSUME RingsInv, NEW h \in Lists, NEW i \in 0..Len(Contents[h]), NEW l \in Links \ Listed,
         NEW at, at = Node(h, Contents[h], i), ListInsert(at, l)
  PROVE  Sound
<1>1. h \in Heads /\ Link(at, l) /\ taken' = <<>> /\ size' = size
  BY DEF Heads, ListInsert
<1>2. /\ Contents' = [Contents EXCEPT ![h] = InsertAt(Contents[h], i + 1, l)]
      /\ Rings(next', prev', Contents')
  BY <1>1, LinkStep
<1>3. RingsInv'
  BY <1>1, <1>2, SizesKept
<1>4. D!Insert(h, i + 1, l)
  BY <1>1, <1>2, AbstractInsert
<1>5. i + 1 \in 1 .. Len(Contents[h]) + 1 /\ Contents[h] = Elements(h)
  BY <1>1 DEF RingsInv, Rings, Contents
<1>6. D!ListNext(h)
  BY <1>1, <1>4, <1>5 DEF D!ListNext, Contents
<1> QED
  BY <1>3, <1>6 DEF Sound, D!Next

LEMMA ListTakeStep ==
  ASSUME RingsInv, NEW h \in Lists, NEW i \in 1..Len(Contents[h]),
         NEW l, l = Contents[h][i], ListTake(l)
  PROVE  Sound
<1>1. h \in Heads /\ Unlink(l) /\ taken' = <<l>> /\ size' = size
  BY DEF Heads, ListTake
<1>2. /\ Contents' = [Contents EXCEPT ![h] = RemoveAt(Contents[h], i)]
      /\ Rings(next', prev', Contents')
  BY <1>1, UnlinkStep
<1>3. RingsInv'
  BY <1>1, <1>2, SizesKept
<1>4. D!TakeAt(h, i)
  BY <1>1, <1>2, AbstractTake
<1>5. i \in DOMAIN Elements(h)
  BY <1>1 DEF RingsInv, Rings, Contents
<1>6. D!ListNext(h)
  BY <1>1, <1>4, <1>5 DEF D!ListNext, Heads, D!Heads
<1> QED
  BY <1>3, <1>6 DEF Sound, D!Next

LEMMA ListTakeNothing ==
  ASSUME RingsInv, NEW h \in Lists, Contents[h] = <<>>, ListTake(h)
  PROVE  Sound
<1>1. h \in Heads /\ Unlink(h) /\ taken' = <<h>> /\ size' = size
  BY DEF Heads, ListTake
<1>2. next' = next /\ prev' = prev /\ Contents' = Contents
  BY <1>1, UnlinkNothing
<1>3. RingsInv'
  BY <1>1, <1>2 DEF RingsInv
<1>4. D!ListNext(h)
  BY <1>1, <1>2 DEF D!ListNext, Contents
<1> QED
  BY <1>3, <1>4 DEF Sound, D!Next

LEMMA ListClearStep ==
  ASSUME RingsInv, NEW h \in Lists, ListClear(h)
  PROVE  Sound
<1>1. h \in Heads /\ Reset(h) /\ taken' = <<>> /\ size' = size
  BY DEF Heads, ListClear
<1>2. Contents' = [Contents EXCEPT ![h] = <<>>] /\ Rings(next', prev', Contents')
  BY <1>1, ResetStep
<1>3. RingsInv'
  BY <1>1, <1>2, SizesKept
<1>4. D!ListNext(h)
  BY <1>1, <1>2, AbstractEmpty DEF D!ListNext
<1> QED
  BY <1>3, <1>4 DEF Sound, D!Next

LEMMA ListMergeStep ==
  ASSUME RingsInv, NEW h \in Lists, NEW o \in Lists \ {h}, ListMerge(h, o)
  PROVE  Sound
<1>1. h \in Heads /\ o \in Heads \ {h} /\ taken' = <<>> /\ size' = size
  BY DEF Heads, ListMerge
<1>2. /\ Contents' = [Contents EXCEPT ![h] = Contents[o], ![o] = <<>>]
      /\ Rings(next', prev', Contents') /\ Contents[h] = <<>>
  BY <1>1, MergeStep
<1>3. RingsInv'
  <2>1. Contents \in [Heads -> Seq(Links)]
    BY DEF RingsInv, Rings
  <2>2. \A q \in Queues \cup Stacks : q \in Heads \ {h, o}
    BY ListAssumption DEF Heads
  <2>3. \A q \in Queues \cup Stacks : Contents'[q] = Contents[q]
    BY <1>1, <1>2, <2>1, <2>2
  <2> QED
    BY <1>1, <1>2, <2>3 DEF RingsInv
<1>4. D!Move(h, o)
  BY <1>1, <1>2 DEF D!Move, Contents
<1>5. D!ListNext(h)
  BY <1>4 DEF D!ListNext
<1> QED
  BY <1>3, <1>5 DEF Sound, D!Next

\* The calls of a queue and of a stack.
LEMMA InsertStep ==
  ASSUME RingsInv, NEW h \in Queues \cup Stacks, NEW l \in Links \ Listed, Insert(h, l)
  PROVE  Sound
<1>1. h \in Heads /\ Link(h, l) /\ taken' = <<>> /\ size' = [size EXCEPT ![h] = size[h] + 1]
  BY DEF Heads, Insert
<1>2. 0 \in 0..Len(Contents[h]) /\ h = Node(h, Contents[h], 0) /\ 0 + 1 = 1
  BY <1>1 DEF Node, RingsInv, Rings
<1>3. /\ Contents' = [Contents EXCEPT ![h] = InsertAt(Contents[h], 1, l)]
      /\ Rings(next', prev', Contents')
      /\ Contents'[h] = InsertAt(Contents[h], 1, l)
      /\ Len(Contents'[h]) = Len(Contents[h]) + 1
  BY <1>1, <1>2, LinkStep
<1>4. size[h] = Len(Contents[h])
  BY DEF RingsInv
<1>5. RingsInv'
  BY <1>1, <1>3, <1>4, SizesKept
<1>6. D!Insert(h, 1, l)
  BY <1>1, <1>3, AbstractInsert
<1> QED
  BY <1>5, <1>6 DEF Sound, D!Next, D!QueueNext, D!StackNext

LEMMA QueueTakeStep ==
  ASSUME RingsInv, NEW h \in Queues, QueueTake(h)
  PROVE  Sound
<1>1. /\ h \in Heads /\ h \in Queues \cup Stacks /\ size[h] > 0
      /\ Unlink(prev[h]) /\ taken' = <<prev[h]>> /\ size' = [size EXCEPT ![h] = size[h] - 1]
  BY DEF Heads, QueueTake
<1>2. Contents[h] # <<>> /\ size[h] = Len(Contents[h])
  BY <1>1 DEF RingsInv
<1>3. prev[h] = Contents[h][Len(Contents[h])] /\ Len(Contents[h]) \in 1..Len(Contents[h])
  BY <1>1, <1>2, Ends
<1>4. /\ Contents' = [Contents EXCEPT ![h] = RemoveAt(Contents[h], Len(Contents[h]))]
      /\ Rings(next', prev', Contents')
      /\ Contents'[h] = RemoveAt(Contents[h], Len(Contents[h]))
      /\ Len(Contents'[h]) = Len(Contents[h]) - 1
  BY <1>1, <1>3, UnlinkStep
<1>5. RingsInv'
  BY <1>1, <1>2, <1>4, SizesKept
<1>6. D!TakeAt(h, Len(Contents[h]))
  BY <1>1, <1>3, <1>4, AbstractTake
<1>7. D!QueueNext(h)
  BY <1>1, <1>2, <1>6 DEF D!QueueNext, Contents
<1> QED
  BY <1>5, <1>7 DEF Sound, D!Next

LEMMA StackTakeStep ==
  ASSUME RingsInv, NEW h \in Stacks, StackTake(h)
  PROVE  Sound
<1>1. /\ h \in Heads /\ h \in Queues \cup Stacks /\ size[h] > 0
      /\ Unlink(next[h]) /\ taken' = <<next[h]>> /\ size' = [size EXCEPT ![h] = size[h] - 1]
  BY DEF Heads, StackTake
<1>2. Contents[h] # <<>> /\ size[h] = Len(Contents[h])
  BY <1>1 DEF RingsInv
<1>3. next[h] = Contents[h][1] /\ 1 \in 1..Len(Contents[h])
  BY <1>1, <1>2, Ends
<1>4. /\ Contents' = [Contents EXCEPT ![h] = RemoveAt(Contents[h], 1)]
      /\ Rings(next', prev', Contents')
      /\ Contents'[h] = RemoveAt(Contents[h], 1)
      /\ Len(Contents'[h]) = Len(Contents[h]) - 1
  BY <1>1, <1>3, UnlinkStep
<1>5. RingsInv'
  BY <1>1, <1>2, <1>4, SizesKept
<1>6. D!TakeAt(h, 1)
  BY <1>1, <1>3, <1>4, AbstractTake
<1>7. D!StackNext(h)
  BY <1>1, <1>2, <1>6 DEF D!StackNext, Contents
<1> QED
  BY <1>5, <1>7 DEF Sound, D!Next

LEMMA ClearStep ==
  ASSUME RingsInv, NEW h \in Queues \cup Stacks, Clear(h)
  PROVE  Sound
<1>1. h \in Heads /\ Reset(h) /\ taken' = <<>> /\ size' = [size EXCEPT ![h] = 0] /\ Len(<<>>) = 0
  BY DEF Heads, Clear
<1>2. Contents' = [Contents EXCEPT ![h] = <<>>] /\ Rings(next', prev', Contents')
  BY <1>1, ResetStep
<1>3. RingsInv'
  BY <1>1, <1>2, SizesKept
<1>4. D!Empty(h)
  BY <1>1, <1>2, AbstractEmpty
<1> QED
  BY <1>3, <1>4 DEF Sound, D!Next, D!QueueNext, D!StackNext

\* Every step keeps the rings and is one of Deques.
LEMMA StepSound == RingsInv /\ [Next]_vars => Sound
<1> SUFFICES ASSUME RingsInv, [Next]_vars PROVE Sound
  OBVIOUS
<1>0. \A h \in Lists : h \in Heads
  BY DEF Heads
<1>1. CASE UNCHANGED vars
  BY <1>1 DEF vars, Sound, RingsInv, Contents, Elements
<1>2. ASSUME NEW l \in Links \ Listed, NEW h \in Lists, ListInsertEnds(h, l) PROVE Sound
  <2>1. /\ Contents[h] \in Seq(Links) /\ prev[h] = Node(h, Contents[h], Len(Contents[h]))
    BY <1>0, Ends
  <2>2. h = Node(h, Contents[h], 0) /\ 0 \in 0..Len(Contents[h]) /\ Len(Contents[h]) \in 0..Len(Contents[h])
    BY <2>1 DEF Node
  <2> QED
    BY <1>2, <2>1, <2>2, ListInsertStep DEF ListInsertEnds
<1>3. ASSUME NEW l \in Links \ Listed, NEW h \in Lists, NEW at \in ToSet(Elements(h)),
             ListInsert(at, l)
      PROVE  Sound
  <2>1. PICK i \in 1..Len(Contents[h]) : at = Node(h, Contents[h], i)
    BY <1>0, Place
  <2> QED
    BY <1>3, <2>1, ListInsertStep
<1>4. ASSUME NEW l \in Links \ Listed, NEW h \in Queues \cup Stacks, Insert(h, l) PROVE Sound
  BY <1>4, InsertStep
<1>5. ASSUME NEW h \in Lists, ListTakeEnds(h) PROVE Sound
  <2>1. CASE Contents[h] = <<>>
    BY <1>0, <1>5, <2>1, Ends, ListTakeNothing DEF ListTakeEnds
  <2>2. CASE Contents[h] # <<>>
    BY <1>0, <1>5, <2>2, Ends, ListTakeStep DEF ListTakeEnds
  <2> QED
    BY <2>1, <2>2
<1>6. ASSUME NEW h \in Lists, NEW l \in ToSet(Elements(h)), ListTake(l) PROVE Sound
  <2>1. PICK i \in 1..Len(Contents[h]) : l = Contents[h][i]
    BY <1>0, Place
  <2> QED
    BY <1>6, <2>1, ListTakeStep
<1>7. ASSUME NEW h \in Lists, ListClear(h) PROVE Sound
  BY <1>7, ListClearStep
<1>8. ASSUME NEW h \in Lists, NEW o \in Lists \ {h}, ListMerge(h, o) PROVE Sound
  BY <1>8, ListMergeStep
<1>9. ASSUME NEW h \in Queues, QueueTake(h) PROVE Sound
  BY <1>9, QueueTakeStep
<1>10. ASSUME NEW h \in Stacks, StackTake(h) PROVE Sound
  BY <1>10, StackTakeStep
<1>11. ASSUME NEW h \in Queues \cup Stacks, Clear(h) PROVE Sound
  BY <1>11, ClearStep
<1> QED
  BY <1>1, <1>2, <1>3, <1>4, <1>5, <1>6, <1>7, <1>8, <1>9, <1>10, <1>11 DEF Next

\* To begin with every ring is empty.
LEMMA InitRings == Init => RingsInv /\ D!Init
<1> SUFFICES ASSUME Init PROVE RingsInv /\ D!Init
  OBVIOUS
<1> DEFINE d == [h \in Heads |-> <<>>]
<1>1. \A h \in Heads : Ring(next, prev, h, <<>>) /\ Distinct(<<>>)
  BY DEF Init, Ring, Node, Distinct, Nodes
<1>2. Rings(next, prev, d)
  BY <1>1 DEF Rings, Init, Apart
<1>3. \A h \in Heads : Elements(h) = <<>>
  <2>1. \A h \in Heads : Around(next, h) = d[h]
    BY <1>2, RingsAre
  <2> QED
    BY <2>1 DEF Elements
<1>4. Contents = d
  BY <1>3 DEF Contents
<1>5. RingsInv
  BY <1>2, <1>4 DEF RingsInv, Init, Heads
<1>6. D!Init
  BY <1>3 DEF D!Init, D!Heads, Heads, Init
<1> QED
  BY <1>5, <1>6

\* The invariant says what RingsClosed says.
LEMMA RingsSuffice == RingsInv => RingsClosed
<1> SUFFICES ASSUME RingsInv, NEW h \in Heads
             PROVE  /\ ToSet(Elements(h)) \subseteq Links
                    /\ Around(prev, h) = Reverse(Elements(h))
                    /\ \A o \in Heads \ {h} : ToSet(Elements(h)) \cap ToSet(Elements(o)) = {}
                    /\ h \in Queues \cup Stacks => size[h] = Len(Elements(h))
  BY DEF RingsClosed
<1>1. \A o \in Heads : Contents[o] = Elements(o) /\ Elements(o) \in Seq(Links)
  BY DEF RingsInv, Rings, Contents
<1>2. Around(prev, h) = Reverse(Elements(h))
  BY <1>1, RingsAre DEF RingsInv
<1>3. \A o \in Heads \ {h} : Apart(Elements(h), Elements(o))
  BY <1>1 DEF RingsInv, Rings
<1>4. \A o \in Heads : ToSet(Elements(o)) = {Elements(o)[i] : i \in 1..Len(Elements(o))}
  BY <1>1 DEF ToSet
<1>5. h \in Queues \cup Stacks => size[h] = Len(Elements(h))
  BY <1>1 DEF RingsInv
<1>6. ToSet(Elements(h)) \subseteq Links
  BY <1>1, <1>4
<1>7. \A o \in Heads \ {h} : ToSet(Elements(h)) \cap ToSet(Elements(o)) = {}
  BY <1>3, <1>4 DEF Apart
<1> QED
  BY <1>2, <1>5, <1>6, <1>7

-----------------------------------------------------------------------------
\* For any number of links and heads: going forward from a head one meets its
\* elements and comes back, going backward one meets them the other way round, no
\* element is in two lists, and queues and stacks count theirs (list.c, queue.c,
\* stack.c).
THEOREM RingsStayClosed == Spec => []RingsClosed
<1>1. Init => RingsInv
  BY InitRings
<1>2. RingsInv /\ [Next]_vars => RingsInv'
  BY StepSound DEF Sound
<1>3. RingsInv => RingsClosed
  BY RingsSuffice
<1> QED
  BY <1>1, <1>2, <1>3, PTL DEF Spec

\* Every call of a list, a queue or a stack is the step of the same name on the
\* sequences of Deques: queues are first in, first out, stacks last in, first out
\* (list_insert(), list_take(), list_merge(), queue_take(), stack_take()).
THEOREM RingsImplementDeques == Spec => ImplementsDeques
<1>1. Init => RingsInv /\ D!Init
  BY InitRings
<1>2. RingsInv /\ [Next]_vars => RingsInv'
  BY StepSound DEF Sound
<1>3. RingsInv /\ [Next]_vars => [D!Next]_(D!vars)
  BY StepSound DEF Sound, D!vars, Contents
<1> QED
  BY <1>1, <1>2, <1>3, PTL DEF Spec, ImplementsDeques, D!Spec
=============================================================================
