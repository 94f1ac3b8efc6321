--------------------------- MODULE HashMapProofs ---------------------------
(***************************************************************************)
(* Proofs about HashMap, for any entries, keys and hashes, any bounds, any *)
(* capacity and any number of allocations: the size counts the entries,    *)
(* map_lookup() gets to each of them, and every call does to the entries   *)
(* what MultiMap promises, whatever resizes it makes and however they end. *)
(***************************************************************************)
EXTENDS HashMap, Induction, FunctionTheorems

-----------------------------------------------------------------------------
(* Tables *)

Slots == Entries \cup {Vacant, Removed}

\* the entries of a table
In(t) == {t[s] : s \in DOMAIN t} \cap Entries

Taken(t) == {s \in DOMAIN t : t[s] \in Entries}

\* no entry is in two slots
Once(t) == \A s \in Taken(t), o \in Taken(t) : t[s] = t[o] => s = o

\* the slots tried for a key up to the n-th are in use
Way(t, cap, k, n) == \A o \in 0..n : t[Slot(k, o, cap)] # Vacant

Findable(t, cap, s) ==
    \E n \in Probes(cap) : Slot(Key[t[s]], n, cap) = s /\ Way(t, cap, Key[t[s]], n)

\* A map as map_resize() and map_insert() leave it.
Sound(m) ==
    /\ m \in Maps
    /\ IsPower(m.capacity) /\ m.capacity >= MinSize
    /\ m.table \in [1..m.capacity -> Slots]
    /\ Once(m.table)
    /\ m.size = Cardinality(Taken(m.table))
    /\ \A s \in Taken(m.table) : Findable(m.table, m.capacity, s)

\* "o" is a map with the entries E that "m" was made into
Made(o, m, E) ==
    /\ Sound(o) /\ In(o.table) = E
    /\ o.static = m.static /\ o.mem <= m.mem

LEMMA Constants ==
  /\ MinSize \in Nat /\ MinSize >= 2 /\ IsPower(MinSize)
  /\ Vacant \notin Entries /\ Removed \notin Entries /\ Vacant # Removed
  /\ None \notin Nat
BY MapAssumption

LEMMA ProbeNumbers ==
  ASSUME NEW cap \in Nat
  PROVE  Probes(cap) \subseteq Nat
BY DEF Probes

\* Every slot tried is one of the table.
LEMMA SlotOfTable ==
  ASSUME NEW cap \in Nat, cap > 0, NEW k \in Keys, NEW n \in Nat
  PROVE  Slot(k, n, cap) \in 1..cap
<1>1. Hash[k] \in Nat
  BY MapAssumption
<1>2. n * n \in Nat
  OBVIOUS
<1> DEFINE x == Hash[k] + n * n
<1>3. x \in Nat
  BY <1>1, <1>2
<1> HIDE DEF x
<1>4. x % cap \in 0..cap - 1
  BY <1>3
<1>5. Slot(k, n, cap) = 1 + (x % cap)
  BY DEF Slot, x
<1> QED
  BY <1>4, <1>5

\* A table of any capacity is a value of Maps.
LEMMA TableIsSequence ==
  ASSUME NEW cap \in Nat, NEW t \in [1..cap -> Slots]
  PROVE  t \in Seq(Entries \cup {Vacant, Removed}) /\ DOMAIN t = 1..cap
BY DEF Slots

\* map_insert() takes a slot that holds no entry and that it came to past
\* entries only.
LEMMA FreeSlotIsFree ==
  ASSUME NEW cap \in Nat, cap > 0, NEW t, NEW k \in Keys, FreeSlot(t, cap, k) # None
  PROVE  \E n \in Probes(cap) :
            /\ FreeSlot(t, cap, k) = Slot(k, n, cap)
            /\ t[Slot(k, n, cap)] \notin Entries
            /\ \A o \in 0..n : o # n => t[Slot(k, o, cap)] \in Entries
<1> DEFINE free == {n \in Probes(cap) : t[Slot(k, n, cap)] \notin Entries}
<1>1. free \subseteq Nat
  BY ProbeNumbers
<1>2. free # {} /\ FreeSlot(t, cap, k) = Slot(k, First(free), cap)
  BY DEF FreeSlot
<1>3. First(free) \in free /\ \A o \in free : First(free) <= o
  BY <1>1, <1>2, FirstIsLeast
<1> DEFINE n == First(free)
<1>4. n \in free /\ n \in Nat /\ \A o \in free : n <= o
  BY <1>1, <1>3
<1>5. FreeSlot(t, cap, k) = Slot(k, n, cap)
  BY <1>2
<1> HIDE DEF n
<1>6. \A o \in 0..n : o # n => t[Slot(k, o, cap)] \in Entries
  <2> SUFFICES ASSUME NEW o \in 0..n, o # n, t[Slot(k, o, cap)] \notin Entries
               PROVE  FALSE
    OBVIOUS
  <2>1. o \in Probes(cap) /\ o < n
    BY <1>4 DEF Probes
  <2>2. o \in free
    BY <2>1
  <2> QED
    BY <1>4, <2>1, <2>2
<1> QED
  BY <1>4, <1>5, <1>6

\* map_lookup() finds an entry of the key whenever there is one.
LEMMA LookupFinds ==
  ASSUME NEW m, Sound(m), NEW k \in Keys
  PROVE  \/ /\ Lookup(m.table, m.capacity, k) = None
            /\ \A e \in In(m.table) : Key[e] # k
         \/ /\ Lookup(m.table, m.capacity, k) \in Taken(m.table)
            /\ Lookup(m.table, m.capacity, k) # None
            /\ Key[m.table[Lookup(m.table, m.capacity, k)]] = k
<1> DEFINE t == m.table
           cap == m.capacity
           stops == {n \in Probes(cap) : t[Slot(k, n, cap)] = Vacant \/
                        (t[Slot(k, n, cap)] \in Entries /\ Key[t[Slot(k, n, cap)]] = k)}
<1>1. /\ cap \in Nat /\ cap > 0
      /\ t \in [1..cap -> Slots]
      /\ \A s \in Taken(t) : Findable(t, cap, s)
  BY Constants DEF Sound, Maps
<1>2. Lookup(t, cap, k) = IF stops = {} \/ t[Slot(k, First(stops), cap)] = Vacant
                          THEN None ELSE Slot(k, First(stops), cap)
  BY DEF Lookup
<1>3. stops \subseteq Nat
  BY <1>1, ProbeNumbers
<1> HIDE DEF t, cap
<1>4. CASE stops = {} \/ t[Slot(k, First(stops), cap)] = Vacant
  <2>1. ASSUME NEW s \in Taken(t), Key[t[s]] = k PROVE FALSE
    <3>1. PICK n \in Probes(cap) : Slot(k, n, cap) = s /\ Way(t, cap, k, n)
      BY <1>1, <2>1 DEF Findable
    <3>2. n \in stops
      BY <2>1, <3>1 DEF Taken
    <3> DEFINE f == First(stops)
    <3>3. f \in stops /\ f <= n /\ f \in Nat /\ n \in Nat
      BY <1>3, <3>2, FirstIsLeast
    <3>4. t[Slot(k, f, cap)] = Vacant
      BY <1>4, <3>2
    <3> HIDE DEF f
    <3>5. f \in 0..n
      BY <3>3
    <3> QED
      BY <3>1, <3>4, <3>5 DEF Way
  <2>2. \A e \in In(t) : Key[e] # k
    BY <2>1 DEF In, Taken
  <2> QED
    BY <1>2, <1>4, <2>2 DEF t, cap
<1>5. CASE stops # {} /\ t[Slot(k, First(stops), cap)] # Vacant
  <2> DEFINE f == First(stops)
  <2>1. f \in stops
    BY <1>3, <1>5, FirstIsLeast
  <2>2. f \in Nat /\ t[Slot(k, f, cap)] \in Entries /\ Key[t[Slot(k, f, cap)]] = k
    BY <1>3, <1>5, <2>1
  <2>3. Lookup(t, cap, k) = Slot(k, f, cap)
    BY <1>2, <1>5
  <2> HIDE DEF f
  <2>4. Slot(k, f, cap) \in 1..cap
    BY <1>1, <2>2, SlotOfTable
  <2>5. Lookup(t, cap, k) \in Taken(t) /\ Lookup(t, cap, k) # None
    BY <1>1, <2>2, <2>3, <2>4, Constants DEF Taken
  <2> QED
    BY <2>2, <2>3, <2>5 DEF t, cap
<1> QED
  BY <1>4, <1>5

LEMMA SoundTable ==
  ASSUME NEW m, Sound(m)
  PROVE  /\ m.capacity \in Nat /\ m.capacity >= 2 /\ IsPower(m.capacity)
         /\ m.table \in [1..m.capacity -> Slots] /\ DOMAIN m.table = 1..m.capacity
         /\ m.size \in Nat /\ m.mem \in Nat /\ m.static \in BOOLEAN
         /\ IsFiniteSet(Taken(m.table)) /\ m.size <= m.capacity
<1>1. /\ m.capacity \in Nat /\ m.capacity >= 2 /\ IsPower(m.capacity)
      /\ m.table \in [1..m.capacity -> Slots] /\ DOMAIN m.table = 1..m.capacity
      /\ m.size \in Nat /\ m.mem \in Nat /\ m.static \in BOOLEAN
  BY Constants DEF Sound, Maps
<1>2. IsFiniteSet(1..m.capacity) /\ Cardinality(1..m.capacity) = m.capacity
  <2> DEFINE c == m.capacity
  <2> HIDE DEF c
  <2>1. c \in Int /\ 1 \in Int /\ ~(1 > c) /\ c - 1 + 1 = c
    BY <1>1 DEF c
  <2>2. IsFiniteSet(1..c) /\ Cardinality(1..c) = c
    BY <2>1, FS_Interval
  <2> QED
    BY <2>2 DEF c
<1>3. Taken(m.table) \subseteq 1..m.capacity
  BY <1>1 DEF Taken
<1>4. IsFiniteSet(Taken(m.table)) /\ Cardinality(Taken(m.table)) <= m.capacity
  BY <1>2, <1>3, FS_Subset
<1> QED
  BY <1>1, <1>4 DEF Sound

\* map_insert() puts a new entry where map_lookup() gets to it, or leaves the
\* table alone.
LEMMA PutAdds ==
  ASSUME NEW m, Sound(m), NEW e \in Entries, e \notin In(m.table)
  PROVE  \/ Put(m, e) = [map |-> m, err |-> "EBADSLT"]
         \/ /\ Put(m, e).err = "OK"
            /\ Made(Put(m, e).map, m, In(m.table) \cup {e})
<1> DEFINE t == m.table
           cap == m.capacity
           k == Key[e]
           slot == FreeSlot(t, cap, k)
           o == [m EXCEPT !.table[slot] = e, !.size = @ + 1]
<1>1. k \in Keys /\ cap \in Nat /\ cap > 0 /\ t \in [1..cap -> Slots] /\ DOMAIN t = 1..cap
  BY SoundTable DEF Keys
<1>2. CASE slot = None
  BY <1>2 DEF Put
<1>3. CASE slot # None
  <2>1. PICK n \in Probes(cap) :
            /\ slot = Slot(k, n, cap)
            /\ t[slot] \notin Entries
            /\ \A i \in 0..n : i # n => t[Slot(k, i, cap)] \in Entries
    BY <1>1, <1>3, FreeSlotIsFree, Zenon
  <2>2. Put(m, e) = [map |-> o, err |-> "OK"]
    BY <1>3 DEF Put
  <2>3. slot \in 1..cap
    BY <1>1, <2>1, SlotOfTable, ProbeNumbers
  <2> HIDE DEF slot
  <2>4. /\ o.table = [t EXCEPT ![slot] = e] /\ o.size = m.size + 1
        /\ o.capacity = cap /\ o.mem = m.mem /\ o.static = m.static
    BY DEF Sound, Maps
  <2>5. o \in Maps /\ o.table \in [1..cap -> Slots] /\ DOMAIN o.table = 1..cap
    <3>1. o.table \in [1..cap -> Slots]
      BY <1>1, <2>4 DEF Slots
    <3>2. o.table \in Seq(Entries \cup {Vacant, Removed})
      BY <1>1, <2>4, <3>1, TableIsSequence
    <3>3. m \in Maps /\ m.size + 1 \in Nat /\ [t EXCEPT ![slot] = e] \in Seq(Entries \cup {Vacant, Removed})
      BY <2>4, <3>2, SoundTable DEF Sound
    <3> DEFINE T == [t EXCEPT ![slot] = e]
               N == m.size + 1
    <3>4. o = [m EXCEPT !.table = T, !.size = N]
      BY <3>3 DEF Maps
    <3> HIDE DEF T, N
    <3>5. [m EXCEPT !.table = T, !.size = N] \in Maps
      BY <3>3 DEF Maps, T, N
    <3> QED
      BY <3>1, <3>4, <3>5, <1>1
  <2> HIDE DEF o
  <2>6. \A s \in 1..cap : o.table[s] = IF s = slot THEN e ELSE t[s]
    BY <1>1, <2>4
  <2>7. Taken(o.table) = Taken(t) \cup {slot} /\ slot \notin Taken(t)
    BY <1>1, <2>1, <2>3, <2>5, <2>6 DEF Taken
  <2>8. In(o.table) = In(t) \cup {e}
    BY <1>1, <2>1, <2>3, <2>5, <2>6 DEF In
  <2>9. Once(o.table)
    <3>1. \A s \in Taken(t) : t[s] # e
      BY DEF Taken, In
    <3> QED
      BY <1>1, <2>3, <2>6, <2>7, <3>1 DEF Sound, Once, Taken
  <2>10. o.size = Cardinality(Taken(o.table))
    BY <2>4, <2>7, SoundTable, FS_AddElement DEF Sound
  <2>11. ASSUME NEW s \in Taken(o.table) PROVE Findable(o.table, cap, s)
    <3>1. e # Vacant /\ \A i \in 1..cap : t[i] # Vacant => o.table[i] # Vacant
      BY <2>6, Constants
    <3>2. CASE s = slot
      <4>1. o.table[s] = e
        BY <2>3, <2>6, <3>2
      <4>2. ASSUME NEW i \in 0..n PROVE o.table[Slot(k, i, cap)] # Vacant
        <5>1. Slot(k, i, cap) \in 1..cap
          BY <1>1, <2>1, SlotOfTable, ProbeNumbers
        <5>2. CASE i = n
          BY <2>1, <3>1, <3>2, <4>1, <5>2
        <5>3. CASE i # n
          BY <2>1, <3>1, <5>1, <5>3, Constants
        <5> QED
          BY <5>2, <5>3
      <4> QED
        BY <2>1, <3>2, <4>1, <4>2 DEF Findable, Way
    <3>3. CASE s # slot
      <4>1. s \in Taken(t) /\ o.table[s] = t[s] /\ Key[t[s]] \in Keys
        BY <2>5, <2>6, <2>7, <3>3 DEF Taken, Keys
      <4>2. PICK q \in Probes(cap) : Slot(Key[t[s]], q, cap) = s /\ Way(t, cap, Key[t[s]], q)
        BY <4>1 DEF Sound, Findable
      <4>3. ASSUME NEW i \in 0..q PROVE o.table[Slot(Key[t[s]], i, cap)] # Vacant
        <5>1. Slot(Key[t[s]], i, cap) \in 1..cap
          <6>1. i \in Nat
            BY <1>1, <4>2, ProbeNumbers
          <6> QED
            BY <1>1, <4>1, <6>1, SlotOfTable
        <5> QED
          BY <3>1, <4>2, <5>1 DEF Way
      <4> QED
        BY <4>1, <4>2, <4>3 DEF Findable, Way
    <3> QED
      BY <3>2, <3>3
  <2>12. Sound(o)
    BY <2>4, <2>5, <2>9, <2>10, <2>11 DEF Sound
  <2> QED
    BY <2>2, <2>4, <2>8, <2>12, SoundTable DEF Made
<1> QED
  BY <1>2, <1>3

\* A tombstone in place of an entry hides no other entry.
LEMMA DropRemoves ==
  ASSUME NEW m, Sound(m), NEW slot \in Taken(m.table)
  PROVE  Made([m EXCEPT !.table[slot] = Removed, !.size = @ - 1], m,
              In(m.table) \ {m.table[slot]})
<1> DEFINE t == m.table
           cap == m.capacity
           T == [t EXCEPT ![slot] = Removed]
           N == m.size - 1
           o == [m EXCEPT !.table[slot] = Removed, !.size = @ - 1]
<1>1. /\ cap \in Nat /\ cap > 0 /\ t \in [1..cap -> Slots] /\ DOMAIN t = 1..cap
      /\ slot \in 1..cap /\ t[slot] \in Entries
  <2>1. cap \in Nat /\ cap >= 2 /\ t \in [1..cap -> Slots] /\ DOMAIN t = 1..cap
    BY SoundTable
  <2> QED
    BY <2>1 DEF Taken
<1>2. T \in [1..cap -> Slots] /\ DOMAIN T = 1..cap
  BY <1>1 DEF Slots
<1>3. \A s \in 1..cap : T[s] = IF s = slot THEN Removed ELSE t[s]
  BY <1>1
<1>4. T \in Seq(Entries \cup {Vacant, Removed})
  BY <1>1, <1>2, TableIsSequence
<1>5. o = [m EXCEPT !.table = T, !.size = N]
  BY DEF Sound, Maps
<1> HIDE DEF T, N
<1>6. Taken(T) = Taken(t) \ {slot}
  BY <1>1, <1>2, <1>3, Constants DEF Taken
<1>7. N \in Nat /\ N = Cardinality(Taken(T))
  <2>1. IsFiniteSet(Taken(t)) /\ m.size = Cardinality(Taken(t)) /\ m.size \in Nat
    BY SoundTable DEF Sound
  <2>2. Cardinality(Taken(T)) = m.size - 1 /\ IsFiniteSet(Taken(T))
    BY <2>1, <1>6, FS_RemoveElement
  <2>3. Cardinality(Taken(T)) \in Nat
    BY <2>2, FS_CardinalityType
  <2> QED
    BY <2>2, <2>3 DEF N
<1>8. /\ o \in Maps /\ o.table = T /\ o.size = N /\ o.capacity = cap
      /\ o.mem = m.mem /\ o.static = m.static
  BY <1>4, <1>5, <1>7 DEF Sound, Maps
<1>9. Once(T) /\ In(T) = In(t) \ {t[slot]}
  <2>1. \A s \in Taken(t) : s # slot => t[s] # t[slot]
    BY DEF Sound, Once
  <2> QED
    BY <1>1, <1>2, <1>3, <1>6, <2>1, Constants DEF Sound, Once, In, Taken
<1>10. ASSUME NEW s \in Taken(T) PROVE Findable(T, cap, s)
  <2>1. \A i \in 1..cap : t[i] # Vacant => T[i] # Vacant
    BY <1>3, Constants
  <2>2. s \in Taken(t) /\ T[s] = t[s] /\ Key[t[s]] \in Keys
    BY <1>1, <1>2, <1>3, <1>6 DEF Taken, Keys
  <2>3. PICK q \in Probes(cap) : Slot(Key[t[s]], q, cap) = s /\ Way(t, cap, Key[t[s]], q)
    BY <2>2 DEF Sound, Findable
  <2>4. ASSUME NEW i \in 0..q PROVE T[Slot(Key[t[s]], i, cap)] # Vacant
    <3>1. Slot(Key[t[s]], i, cap) \in 1..cap
      <4>1. i \in Nat
        BY <1>1, <2>3, ProbeNumbers
      <4> QED
        BY <1>1, <2>2, <4>1, SlotOfTable
    <3> QED
      BY <2>1, <2>3, <3>1 DEF Way
  <2> QED
    BY <2>2, <2>3, <2>4 DEF Findable, Way
<1> HIDE DEF o
<1>11. Sound(o)
  BY <1>2, <1>7, <1>8, <1>9, <1>10 DEF Sound
<1>12. Made(o, m, In(t) \ {t[slot]})
  BY <1>8, <1>9, <1>11, SoundTable DEF Made
<1> QED
  BY <1>12 DEF o

\* A table with no entry is sound.
LEMMA EmptyIsSound ==
  ASSUME NEW m, m \in Maps, IsPower(m.capacity), m.capacity >= MinSize, m.size = 0,
         m.table \in [1..m.capacity -> {Vacant, Removed}]
  PROVE  Sound(m) /\ In(m.table) = {}
<1>1. m.table \in [1..m.capacity -> Slots]
  BY DEF Slots
<1>2. Taken(m.table) = {} /\ In(m.table) = {}
  BY Constants DEF Taken, In
<1>3. Cardinality(Taken(m.table)) = 0
  BY <1>2, FS_EmptySet
<1> QED
  BY <1>1, <1>2, <1>3 DEF Sound, Once

LEMMA FreshIsEmpty ==
  ASSUME NEW m, Sound(m), m.mem # 0, NEW want \in Nat, want > MinSize => IsPower(want)
  PROVE  /\ Sound(Fresh(m, want)) /\ In(Fresh(m, want).table) = {}
         /\ Fresh(m, want).mem = m.mem - 1 /\ Fresh(m, want).static = m.static
<1> DEFINE cap == IF want > MinSize THEN want ELSE MinSize
           T == [s \in 1..cap |-> Vacant]
           M == m.mem - 1
<1>1. cap \in Nat /\ IsPower(cap) /\ cap >= MinSize
  BY Constants
<1>2. M \in Nat
  BY SoundTable
<1> HIDE DEF cap
<1>3. T \in [1..cap -> {Vacant, Removed}] /\ T \in [1..cap -> Slots]
  BY DEF Slots
<1>4. T \in Seq(Entries \cup {Vacant, Removed})
  BY <1>1, <1>3, TableIsSequence
<1>5. Fresh(m, want) = [m EXCEPT !.table = T, !.capacity = cap, !.size = 0, !.mem = M]
  BY DEF Fresh, cap, Sound, Maps
<1> HIDE DEF T, M
<1> DEFINE o == [m EXCEPT !.table = T, !.capacity = cap, !.size = 0, !.mem = M]
<1>6. /\ o \in Maps /\ o.table = T /\ o.size = 0 /\ o.capacity = cap
      /\ o.mem = M /\ o.static = m.static
  BY <1>1, <1>2, <1>4 DEF Sound, Maps
<1> HIDE DEF o
<1>7. Sound(o) /\ In(o.table) = {}
  BY <1>1, <1>3, <1>6, EmptyIsSound
<1> QED
  BY <1>5, <1>6, <1>7 DEF M, o

-----------------------------------------------------------------------------
(* Resizing *)

\* "grown" gives sound maps for those with at most n allocations left.
Grows(grown, n) ==
    \A x, want : Sound(x) /\ x.mem <= n /\ want \in Nat /\ IsPower(want) =>
        Made(grown[x][want], x, In(x.table))

LEMMA MadeOfMade ==
  ASSUME NEW m, NEW o, NEW q, NEW D, NEW E, Sound(m), Made(o, m, D), Made(q, o, E)
  PROVE  Made(q, m, E)
BY SoundTable DEF Made

\* map_insert(): the entry is added or refused, and in both cases the map may
\* have got another table.
LEMMA InsertionAdds ==
  ASSUME NEW m, Sound(m), NEW e \in Entries, e \notin In(m.table),
         NEW grown, Grows(grown, m.mem)
  PROVE  \/ /\ Put(Roomy(m, grown), e).err = "EBADSLT"
            /\ Made(Put(Roomy(m, grown), e).map, m, In(m.table))
         \/ /\ Put(Roomy(m, grown), e).err = "OK"
            /\ Made(Put(Roomy(m, grown), e).map, m, In(m.table) \cup {e})
<1> DEFINE g == Roomy(m, grown)
<1>1. Made(g, m, In(m.table))
  <2>1. m.capacity \in Nat /\ 2 * m.capacity \in Nat /\ IsPower(2 * m.capacity) /\ m.mem <= m.mem
    BY SoundTable, PowersOfTwo
  <2>2. Made(grown[m][2 * m.capacity], m, In(m.table))
    BY <2>1 DEF Grows
  <2>3. Made(m, m, In(m.table))
    BY <2>1, SoundTable DEF Made
  <2> QED
    BY <2>2, <2>3 DEF Roomy
<1> HIDE DEF g
<1>2. Sound(g) /\ In(g.table) = In(m.table)
  BY <1>1 DEF Made
<1>3. CASE Put(g, e) = [map |-> g, err |-> "EBADSLT"]
  BY <1>1, <1>3 DEF g
<1>4. CASE Put(g, e).err = "OK" /\ Made(Put(g, e).map, g, In(g.table) \cup {e})
  BY <1>1, <1>2, <1>4, MadeOfMade DEF g
<1> QED
  BY <1>2, <1>3, <1>4, PutAdds

\* the entries of the first n slots
Upto(t, n) == {t[s] : s \in 1..n} \cap Entries

\* one turn of the loop in map_resize()
Turn(r, e, grown) ==
    IF r.err = "OK" /\ e \in Entries THEN Put(Roomy(r.map, grown), e) ELSE r

\* The loop over the slots of the old table has a result for each of them.
LEMMA MovedIsWalk ==
  ASSUME NEW m, m.capacity \in Nat, NEW fresh, NEW grown
  PROVE  \E f : /\ f[0] = [map |-> fresh, err |-> "OK"]
                /\ \A i \in 0..m.capacity : i # 0 =>
                      f[i] = Turn(f[i - 1], m.table[i], grown)
                /\ Moved(m, fresh, grown) = f[m.capacity]
<1> DEFINE cap == m.capacity
           start == [map |-> fresh, err |-> "OK"]
           Walk(f, n) == f = [i \in 0..n |-> IF i = 0 THEN start
                                             ELSE Turn(f[i - 1], m.table[i], grown)]
<1>1. \E f : Walk(f, cap)
  <2> DEFINE S == {n \in Nat : \E f : Walk(f, n)}
  <2> HIDE DEF start
  <2>1. 0 \in S
    <3>1. Walk([i \in 0..0 |-> start], 0)
      OBVIOUS
    <3> QED
      BY <3>1
  <2>2. ASSUME NEW n \in Nat, n \in S PROVE n + 1 \in S
    <3>1. PICK f : Walk(f, n)
      BY <2>2
    <3> DEFINE g == [i \in 0..n + 1 |-> IF i = n + 1 THEN Turn(f[n], m.table[n + 1], grown)
                                                     ELSE f[i]]
    <3>2. Walk(g, n + 1)
      <4>1. ASSUME NEW i \in 0..n + 1
            PROVE  g[i] = IF i = 0 THEN start ELSE Turn(g[i - 1], m.table[i], grown)
        <5>1. CASE i = 0
          BY <3>1, <5>1
        <5>2. CASE i # 0
          <6>1. i - 1 \in 0..n /\ g[i - 1] = f[i - 1]
            BY <5>2
          <6>2. CASE i = n + 1
            BY <6>1, <6>2
          <6>3. CASE i # n + 1
            <7>1. i \in 0..n /\ g[i] = f[i]
              BY <6>3
            <7>2. f[i] = Turn(f[i - 1], m.table[i], grown)
              BY <3>1, <5>2, <7>1
            <7> QED
              BY <5>2, <6>1, <7>1, <7>2
          <6> QED
            BY <6>2, <6>3
        <5> QED
          BY <5>1, <5>2
      <4> HIDE DEF start
      <4> QED
        BY <4>1
    <3> HIDE DEF g, Walk
    <3>3. \E h : Walk(h, n + 1)
      BY <3>2
    <3> QED
      BY <3>3
  <2> HIDE DEF S
  <2>3. Nat \subseteq S
    BY <2>1, <2>2, NumberInduction
  <2> QED
    BY <2>3 DEF S
<1> DEFINE f == CHOOSE f : Walk(f, cap)
<1>2. Walk(f, cap)
  <2> HIDE DEF Walk
  <2> QED
    BY <1>1
<1>3. Moved(m, fresh, grown) = f[cap]
  BY DEF Moved, Turn
<1> HIDE DEF f
<1>4. \A i \in 0..cap : i # 0 => f[i] = Turn(f[i - 1], m.table[i], grown)
  <2> HIDE DEF start
  <2> QED
    BY <1>2
<1>5. f[0] = start
  <2> HIDE DEF start
  <2> QED
    BY <1>2
<1> QED
  BY <1>3, <1>4, <1>5

\* The loop in map_resize() gets every entry across, or none is missed in the
\* old table and what it has filled is a sound map.
LEMMA MovedHolds ==
  ASSUME NEW m, Sound(m), NEW fresh, Sound(fresh), In(fresh.table) = {},
         NEW grown, Grows(grown, fresh.mem)
  PROVE  /\ Moved(m, fresh, grown).err \in {"OK", "EBADSLT"}
         /\ \E E : Made(Moved(m, fresh, grown).map, fresh, E)
         /\ Moved(m, fresh, grown).err = "OK" =>
                Made(Moved(m, fresh, grown).map, fresh, In(m.table))
<1>1. /\ m.capacity \in Nat /\ m.table \in [1..m.capacity -> Slots]
      /\ DOMAIN m.table = 1..m.capacity
  BY SoundTable
<1>2. PICK f : /\ f[0] = [map |-> fresh, err |-> "OK"]
               /\ \A i \in 0..m.capacity : i # 0 =>
                     f[i] = Turn(f[i - 1], m.table[i], grown)
               /\ Moved(m, fresh, grown) = f[m.capacity]
  BY <1>1, MovedIsWalk
<1> DEFINE P(i) == /\ f[i].err \in {"OK", "EBADSLT"}
                   /\ \E E : Made(f[i].map, fresh, E)
                   /\ f[i].err = "OK" => Made(f[i].map, fresh, Upto(m.table, i))
           S == {i \in Nat : P(i)}
<1>3. P(0)
  <2>1. f[0].map = fresh /\ f[0].err = "OK"
    BY <1>2
  <2>2. Upto(m.table, 0) = {}
    BY DEF Upto
  <2>3. Made(fresh, fresh, {})
    BY SoundTable DEF Made
  <2> QED
    BY <2>1, <2>2, <2>3
<1>4. ASSUME NEW i \in Nat, i < m.capacity, P(i) PROVE P(i + 1)
  <2> DEFINE e == m.table[i + 1]
  <2>1. i + 1 \in 1..m.capacity /\ f[i + 1] = Turn(f[i], e, grown)
    <3>1. i + 1 \in 0..m.capacity /\ i + 1 # 0 /\ (i + 1) - 1 = i /\ i + 1 \in 1..m.capacity
      BY <1>1, <1>4
    <3> QED
      BY <1>2, <3>1
  <2>2. Upto(m.table, i + 1) = Upto(m.table, i) \cup ({e} \cap Entries)
    BY DEF Upto
  <2>3. CASE f[i].err # "OK"
    BY <1>4, <2>1, <2>3 DEF Turn
  <2>4. CASE f[i].err = "OK" /\ e \notin Entries
    <3>1. f[i + 1] = f[i] /\ Upto(m.table, i + 1) = Upto(m.table, i)
      BY <2>1, <2>2, <2>4 DEF Turn
    <3> QED
      BY <1>4, <3>1
  <2>5. CASE f[i].err = "OK" /\ e \in Entries
    <3> DEFINE x == f[i].map
    <3>1. Made(x, fresh, Upto(m.table, i))
      BY <1>4, <2>5
    <3>2. Sound(x) /\ In(x.table) = Upto(m.table, i) /\ x.mem <= fresh.mem
      BY <3>1 DEF Made
    <3>3. e \notin In(x.table)
      <4>1. ASSUME NEW s \in 1..i, m.table[s] = e PROVE FALSE
        <5>1. s \in Taken(m.table) /\ i + 1 \in Taken(m.table) /\ s # i + 1
          BY <1>1, <2>1, <2>5, <4>1 DEF Taken
        <5> QED
          BY <4>1, <5>1 DEF Sound, Once
      <4> QED
        BY <3>2, <4>1 DEF Upto
    <3>4. Grows(grown, x.mem)
      <4>1. \A y : Sound(y) /\ y.mem <= x.mem => y.mem <= fresh.mem
        BY <3>2, SoundTable
      <4> QED
        BY <4>1 DEF Grows
    <3>5. f[i + 1] = Put(Roomy(x, grown), e)
      BY <2>1, <2>5 DEF Turn
    <3> HIDE DEF e, x
    <3>6. CASE f[i + 1].err = "EBADSLT" /\ Made(f[i + 1].map, x, In(x.table))
      BY <3>1, <3>6, MadeOfMade
    <3>7. CASE f[i + 1].err = "OK" /\ Made(f[i + 1].map, x, In(x.table) \cup {e})
      <4>1. Made(f[i + 1].map, fresh, In(x.table) \cup {e})
        BY <3>1, <3>7, MadeOfMade
      <4>2. In(x.table) \cup {e} = Upto(m.table, i + 1)
        BY <2>2, <2>5, <3>2
      <4> QED
        BY <3>7, <4>1, <4>2
    <3> QED
      BY <2>5, <3>2, <3>3, <3>4, <3>5, <3>6, <3>7, InsertionAdds
  <2> QED
    BY <1>4, <2>3, <2>4, <2>5
<1>5. P(m.capacity)
  <2> HIDE DEF P
  <2>1. 0 \in S /\ \A i \in Nat : i < m.capacity /\ i \in S => i + 1 \in S
    BY <1>3, <1>4
  <2> HIDE DEF S
  <2>2. 0..m.capacity \subseteq S
    BY <1>1, <2>1, BoundedInduction
  <2> QED
    BY <1>1, <2>2 DEF S
<1>6. Upto(m.table, m.capacity) = In(m.table)
  BY <1>1 DEF Upto, In
<1> QED
  BY <1>2, <1>5, <1>6

\* map_resize() keeps the entries, whether it succeeds or fails, and a failure
\* for want of slots has used up an allocation.
LEMMA ResizeKeeps ==
  ASSUME NEW m, Sound(m), NEW want \in Nat, want > MinSize => IsPower(want),
         NEW grown, m.mem # 0 => Grows(grown, m.mem - 1)
  PROVE  /\ Resize(m, want, grown).err \in {"OK", "EBADSLT", "ENOMEM"}
         /\ Made(Resize(m, want, grown).map, m, In(m.table))
         /\ Resize(m, want, grown).err = "EBADSLT" => Resize(m, want, grown).map.mem < m.mem
<1> DEFINE r == Resize(m, want, grown)
<1>1. CASE m.mem = 0
  <2>1. r.map = m /\ r.err = "ENOMEM"
    BY <1>1 DEF Resize
  <2>2. Made(m, m, In(m.table))
    BY SoundTable DEF Made
  <2> QED
    BY <2>1, <2>2
<1>2. CASE m.mem # 0
  <2> DEFINE fresh == Fresh(m, want)
             moved == Moved(m, fresh, grown)
             M == moved.map.mem
             o == [m EXCEPT !.mem = M]
  <2>1. /\ Sound(fresh) /\ In(fresh.table) = {}
        /\ fresh.mem = m.mem - 1 /\ fresh.static = m.static /\ m.mem \in Nat
    BY <1>2, FreshIsEmpty, SoundTable
  <2>2. r = IF moved.err = "OK" THEN moved ELSE [map |-> o, err |-> moved.err]
    BY <1>2 DEF Resize
  <2> HIDE DEF fresh, r
  <2>3. /\ moved.err \in {"OK", "EBADSLT"}
        /\ \E E : Made(moved.map, fresh, E)
        /\ moved.err = "OK" => Made(moved.map, fresh, In(m.table))
    BY <1>2, <2>1, MovedHolds
  <2> HIDE DEF moved
  <2>4. M \in Nat /\ M < m.mem
    BY <2>1, <2>3, SoundTable DEF Made
  <2>5. CASE moved.err = "OK"
    BY <2>1, <2>2, <2>3, <2>5, SoundTable DEF Made, r
  <2>6. CASE moved.err # "OK"
    <3> HIDE DEF M
    <3>1. /\ o \in Maps /\ o.table = m.table /\ o.capacity = m.capacity
          /\ o.size = m.size /\ o.static = m.static /\ o.mem = M
      BY <2>4 DEF Sound, Maps
    <3>2. r.map = o /\ r.err = "EBADSLT"
      BY <2>2, <2>3, <2>6
    <3> HIDE DEF o
    <3>3. Sound(o)
      BY <3>1 DEF Sound
    <3> QED
      BY <2>1, <2>4, <3>1, <3>2, <3>3 DEF Made, r
  <2> QED
    BY <2>5, <2>6
<1> QED
  BY <1>1, <1>2

\* one turn of the loop in map_insert()
GrowTurn(n, g) ==
    [m \in Maps |-> [want \in Nat |->
        IF n = 0 THEN m
        ELSE IF Resize(m, want, g).err = "EBADSLT"
             THEN g[Resize(m, want, g).map][2 * want]
             ELSE Resize(m, want, g).map]]

\* What is done with so many allocations left rests on what is done with one
\* less.
LEMMA GrownIsWalk ==
  ASSUME NEW left \in Nat
  PROVE  \E f : /\ \A n \in 0..left : f[n] = GrowTurn(n, f[n - 1])
                /\ Grown(left) = f[left]
<1> DEFINE Walk(f, n) == f = [i \in 0..n |-> GrowTurn(i, f[i - 1])]
           S == {n \in Nat : \E f : Walk(f, n)}
<1>1. \A g, h : GrowTurn(0, g) = GrowTurn(0, h)
  BY DEF GrowTurn
<1>2. 0 \in S
  <2> DEFINE f == [i \in 0..0 |-> GrowTurn(0, {})]
  <2>1. Walk(f, 0)
    BY <1>1
  <2> HIDE DEF f, Walk
  <2> QED
    BY <2>1
<1>3. ASSUME NEW n \in Nat, n \in S PROVE n + 1 \in S
  <2>1. PICK f : Walk(f, n)
    BY <1>3
  <2> DEFINE g == [i \in 0..n + 1 |-> IF i = n + 1 THEN GrowTurn(n + 1, f[n]) ELSE f[i]]
  <2>2. Walk(g, n + 1)
    <3>1. ASSUME NEW i \in 0..n + 1
          PROVE  g[i] = GrowTurn(i, g[i - 1])
      <4>1. CASE i = n + 1
        BY <4>1
      <4>2. CASE i # n + 1 /\ i # 0
        BY <2>1, <4>2
      <4>3. CASE i = 0
        BY <1>1, <2>1, <4>3
      <4> QED
        BY <4>1, <4>2, <4>3
    <3> QED
      BY <3>1
  <2> HIDE DEF g, Walk
  <2>3. \E h : Walk(h, n + 1)
    BY <2>2
  <2> QED
    BY <2>3
<1>4. \E f : Walk(f, left)
  <2> HIDE DEF S
  <2>1. Nat \subseteq S
    BY <1>2, <1>3, NumberInduction
  <2> QED
    BY <2>1 DEF S
<1> DEFINE f == CHOOSE f : Walk(f, left)
<1>5. Walk(f, left)
  <2> HIDE DEF Walk
  <2> QED
    BY <1>4
<1>6. Grown(left) = f[left]
  BY DEF Grown, GrowTurn
<1> HIDE DEF f
<1>7. \A n \in 0..left : f[n] = GrowTurn(n, f[n - 1])
  BY <1>5
<1> QED
  BY <1>6, <1>7

\* The loop in map_insert() keeps the entries, however often it has to start
\* anew and whether it runs out of memory.
LEMMA GrownGrows ==
  ASSUME NEW left \in Nat
  PROVE  Grows(Grown(left), left)
<1>1. PICK f : /\ \A n \in 0..left : f[n] = GrowTurn(n, f[n - 1])
               /\ Grown(left) = f[left]
  BY GrownIsWalk
<1> DEFINE S == {n \in Nat : n <= left => Grows(f[n], n)}
<1>2. ASSUME NEW n \in 0..left, n # 0 => Grows(f[n - 1], n - 1)
      PROVE  Grows(f[n], n)
  <2> SUFFICES ASSUME NEW m, NEW want, Sound(m), m.mem <= n, want \in Nat, IsPower(want)
               PROVE  Made(f[n][m][want], m, In(m.table))
    BY DEF Grows
  <2> DEFINE r == Resize(m, want, f[n - 1])
  <2>1. m \in Maps /\ m.mem \in Nat /\ n \in Nat
    BY SoundTable DEF Sound
  <2>2. f[n][m][want] = IF n = 0 THEN m
                        ELSE IF r.err = "EBADSLT" THEN f[n - 1][r.map][2 * want]
                        ELSE r.map
    <3> DEFINE g == f[n - 1]
    <3>1. f[n] = GrowTurn(n, g)
      BY <1>1
    <3> HIDE DEF g
    <3>2. GrowTurn(n, g)[m][want] =
            IF n = 0 THEN m
            ELSE IF Resize(m, want, g).err = "EBADSLT"
                 THEN g[Resize(m, want, g).map][2 * want]
                 ELSE Resize(m, want, g).map
      BY <2>1 DEF GrowTurn
    <3>3. GrowTurn(n, g)[m][want] =
            IF n = 0 THEN m
            ELSE IF r.err = "EBADSLT" THEN f[n - 1][r.map][2 * want] ELSE r.map
      BY <3>2 DEF g
    <3> QED
      BY <3>1, <3>3
  <2>3. CASE n = 0
    <3>1. f[n][m][want] = m
      BY <2>2, <2>3
    <3> QED
      BY <2>1, <3>1 DEF Made
  <2>4. CASE n # 0
    <3>1. m.mem # 0 => Grows(f[n - 1], m.mem - 1)
      <4>1. \A x : Sound(x) /\ x.mem <= m.mem - 1 => x.mem <= n - 1
        BY <2>1, SoundTable
      <4> QED
        BY <1>2, <2>4, <4>1 DEF Grows
    <3> HIDE DEF r
    <3>2. /\ Made(r.map, m, In(m.table))
          /\ r.err = "EBADSLT" => r.map.mem < m.mem
      BY <3>1, ResizeKeeps DEF r
    <3>3. CASE r.err = "EBADSLT"
      <4>1. Sound(r.map) /\ In(r.map.table) = In(m.table) /\ r.map.mem \in Nat
        BY <3>2, SoundTable DEF Made
      <4>2. r.map.mem <= n - 1 /\ 2 * want \in Nat /\ IsPower(2 * want)
        BY <2>1, <3>2, <3>3, <4>1, PowersOfTwo
      <4>3. Made(f[n - 1][r.map][2 * want], r.map, In(r.map.table))
        BY <1>2, <2>4, <4>1, <4>2 DEF Grows
      <4> QED
        BY <2>2, <2>4, <3>2, <3>3, <4>1, <4>3, MadeOfMade
    <3> QED
      BY <2>2, <2>4, <3>2, <3>3
  <2> QED
    BY <2>3, <2>4
<1>3. 0 \in S
  BY <1>2
<1>4. ASSUME NEW n \in Nat, n \in S PROVE n + 1 \in S
  <2>1. CASE n + 1 <= left
    <3>1. n + 1 \in 0..left /\ (n + 1) - 1 = n /\ Grows(f[n], n)
      BY <1>4, <2>1
    <3> QED
      BY <1>2, <3>1
  <2> QED
    BY <2>1
<1> HIDE DEF S
<1>5. Nat \subseteq S
  BY <1>3, <1>4, NumberInduction
<1> QED
  BY <1>1, <1>5 DEF S

-----------------------------------------------------------------------------
(* The map *)

MapInv ==
    /\ static_size \in BOOLEAN /\ data_delete \in BOOLEAN
    /\ Sound(Map(0))

LEMMA MapSound ==
  ASSUME MapInv, NEW mem \in Nat
  PROVE  Sound(Map(mem)) /\ In(Map(mem).table) = Held
BY DEF MapInv, Map, Sound, Maps, In, Held

LEMMA EntriesInOneSlot ==
  ASSUME NEW m, Sound(m)
  PROVE  Cardinality(In(m.table)) = m.size
<1> DEFINE T == Taken(m.table)
           f == [s \in T |-> m.table[s]]
<1>1. IsFiniteSet(T) /\ m.size = Cardinality(T)
  BY SoundTable DEF Sound
<1>2. T \subseteq DOMAIN m.table /\ \A s \in T : m.table[s] \in Entries
  BY DEF Taken
<1>3. f \in Bijection(T, In(m.table))
  <2>1. f \in [T -> In(m.table)]
    BY <1>2 DEF In
  <2>2. \A s, o \in T : f[s] = f[o] => s = o
    BY DEF Sound, Once
  <2>3. \A e \in In(m.table) : \E s \in T : f[s] = e
    BY DEF In, Taken
  <2> HIDE DEF f, T
  <2> QED
    BY <2>1, <2>2, <2>3, Fun_IsBij
<1> HIDE DEF f, T
<1>4. Cardinality(T) = Cardinality(In(m.table))
  BY <1>1, <1>3, FS_Bijection DEF ExistsBijection
<1> QED
  BY <1>1, <1>4

\* The invariant is what the runs check of the table.
LEMMA InvImplies ==
  ASSUME MapInv
  PROVE  TypeOK /\ SizeCounts /\ Reachable
<1> DEFINE m == Map(0)
<1>1. Sound(m) /\ In(m.table) = Held
  BY MapSound
<1>2. m.table = table /\ m.size = size /\ m.capacity = capacity
  BY DEF Map
<1> HIDE DEF m
<1>3. TypeOK
  BY <1>1, <1>2, SoundTable DEF MapInv, TypeOK, Sound, Slots
<1>4. SizeCounts
  BY <1>1, <1>2, EntriesInOneSlot DEF SizeCounts, Sound, Taken
<1>5. Reachable
  BY <1>1, <1>2 DEF Reachable, Sound, Taken, Findable, Way
<1> QED
  BY <1>3, <1>4, <1>5

LEMMA InitEmpty ==
  ASSUME Init
  PROVE  MapInv /\ Held = {}
<1>1. capacity \in Nat /\ IsPower(capacity) /\ capacity >= MinSize
  <2>1. 2 * MinSize \in Nat
    BY Constants
  <2> QED
    BY <2>1, Constants, NiceSizeIsNice DEF Init
<1> DEFINE m == Map(0)
<1>2. table \in [1..capacity -> {Vacant, Removed}] /\ table \in [1..capacity -> Slots]
  BY DEF Init, Slots
<1>3. m \in Maps /\ m.table = table /\ m.capacity = capacity /\ m.size = 0
  BY <1>1, <1>2, TableIsSequence DEF Init, Map, Maps
<1> HIDE DEF m
<1>4. Sound(m) /\ In(m.table) = {}
  BY <1>1, <1>2, <1>3, EmptyIsSound
<1> QED
  BY <1>3, <1>4 DEF Init, MapInv, m, In, Held

\* A call that leaves a map made of the one it was given.
LEMMA BecomesMade ==
  ASSUME MapInv, NEW mem \in Nat, NEW o, NEW m, m.static = static_size, NEW E,
         Made(o, m, E), Becomes(o)
  PROVE  MapInv' /\ Held' = E
<1>1. Sound(o) /\ In(o.table) = E /\ o.static = static_size
  BY DEF Made
<1>2. /\ table' = o.table /\ size' = o.size /\ capacity' = o.capacity
      /\ static_size' = static_size /\ data_delete' = data_delete
  BY DEF Becomes
<1>3. Map(0)' \in Maps
  BY <1>1, <1>2 DEF Map, Sound, Maps
<1>4. Sound(Map(0))'
  BY <1>1, <1>2, <1>3 DEF Map, Sound
<1> QED
  BY <1>1, <1>2, <1>4 DEF MapInv, In, Held

LEMMA InsertKeeps ==
  ASSUME MapInv, NEW e \in Entries, MapInsert(e)
  PROVE  MapInv' /\ MM!Insert(e)
<1>1. PICK mem \in Allocations :
         Becomes(Insert(Map(mem), e).map) /\ result' = <<"insert", e, Insert(Map(mem), e).err>>
  BY DEF MapInsert
<1> DEFINE m == Map(mem)
           r == Insert(m, e)
<1>2. mem \in Nat /\ m.mem = mem /\ m.static = static_size
  BY MapAssumption DEF Map
<1>3. Sound(m) /\ In(m.table) = Held /\ e \notin Held
  BY <1>2, MapSound DEF MapInsert
<1> HIDE DEF m
<1>4. r = Put(Roomy(m, Grown(m.mem)), e)
  BY DEF Insert
<1>5. Grows(Grown(m.mem), m.mem)
  BY <1>2, GrownGrows
<1> HIDE DEF r
<1>6. \/ r.err = "EBADSLT" /\ Made(r.map, m, In(m.table))
      \/ r.err = "OK" /\ Made(r.map, m, In(m.table) \cup {e})
  BY <1>3, <1>4, <1>5, InsertionAdds
<1>7. Becomes(r.map) /\ result' = <<"insert", e, r.err>>
  BY <1>1 DEF r, m
<1>8. CASE r.err = "EBADSLT" /\ Made(r.map, m, Held)
  BY <1>2, <1>3, <1>7, <1>8, BecomesMade DEF MM!Insert
<1>9. CASE r.err = "OK" /\ Made(r.map, m, Held \cup {e})
  BY <1>2, <1>3, <1>7, <1>9, BecomesMade DEF MM!Insert
<1> QED
  BY <1>3, <1>6, <1>8, <1>9

LEMMA TakeKeeps ==
  ASSUME MapInv, NEW k \in Keys, MapTake(k)
  PROVE  MapInv' /\ MM!Take(k)
<1> DEFINE slot == Lookup(table, capacity, k)
<1>1. Sound(Map(0)) /\ In(Map(0).table) = Held
  BY MapSound
<1>2. Map(0).table = table /\ Map(0).capacity = capacity
  BY DEF Map
<1>3. \/ slot = None /\ \A e \in Held : Key[e] # k
      \/ slot \in Taken(table) /\ slot # None /\ Key[table[slot]] = k
  <2>1. \/ slot = None /\ \A e \in In(Map(0).table) : Key[e] # k
        \/ slot \in Taken(Map(0).table) /\ slot # None /\ Key[Map(0).table[slot]] = k
    BY <1>1, <1>2, LookupFinds
  <2> QED
    BY <1>1, <1>2, <2>1
<1>4. CASE slot = None
  <2>1. result' = <<"take", k, None>> /\ UNCHANGED <<table, size, capacity, static_size, data_delete>>
    BY <1>4 DEF MapTake
  <2>2. MapInv' /\ Held' = Held
    BY <2>1 DEF MapInv, Map, Held
  <2> QED
    BY <1>3, <1>4, <2>1, <2>2 DEF MM!Take
<1>5. CASE slot # None
  <2> DEFINE without(mem) == [Map(mem) EXCEPT !.table[slot] = Removed, !.size = @ - 1]
             e == table[slot]
  <2>1. PICK mem \in Allocations :
           Becomes(IF ~static_size /\ ShouldShrink(without(mem))
                   THEN Resize(without(mem), capacity \div 4, Grown(mem)).map
                   ELSE without(mem))
    BY <1>5 DEF MapTake
  <2>2. result' = <<"take", k, e>>
    BY <1>5 DEF MapTake
  <2> DEFINE m == Map(mem)
             w == without(mem)
             r == Resize(w, capacity \div 4, Grown(mem))
  <2>3. mem \in Nat /\ m.mem = mem /\ m.static = static_size /\ m.table = table /\ m.capacity = capacity
    BY MapAssumption DEF Map
  <2>4. slot \in Taken(table) /\ Key[e] = k
    BY <1>3, <1>5
  <2>5. Sound(m) /\ In(m.table) = Held
    BY <2>3, MapSound
  <2>6. Made(w, m, Held \ {e}) /\ w.mem = mem
    <3> HIDE DEF slot, m
    <3>1. Made([m EXCEPT !.table[slot] = Removed, !.size = @ - 1], m,
               In(m.table) \ {m.table[slot]})
      BY <2>3, <2>4, <2>5, DropRemoves
    <3>2. [m EXCEPT !.table[slot] = Removed, !.size = @ - 1].mem = mem
      BY <2>3, <2>5 DEF Sound, Maps
    <3> QED
      BY <2>3, <2>5, <3>1, <3>2 DEF m
  <2> HIDE DEF w, m
  <2>7. Sound(w) /\ In(w.table) = Held \ {e}
    BY <2>6 DEF Made
  <2>8. Made(r.map, m, Held \ {e})
    <3>1. w.mem # 0 => Grows(Grown(mem), w.mem - 1)
      <4>1. w.mem - 1 <= mem /\ Grows(Grown(mem), mem)
        BY <2>3, <2>6, GrownGrows
      <4>2. \A x : Sound(x) /\ x.mem <= w.mem - 1 => x.mem <= mem
        BY <2>3, <2>6, SoundTable
      <4> QED
        BY <4>1, <4>2 DEF Grows
    <3>2. capacity \div 4 \in Nat /\ (capacity \div 4 > MinSize => IsPower(capacity \div 4))
      <4>1. capacity \in Nat /\ IsPower(capacity)
        BY <2>3, <2>5, SoundTable
      <4>2. CASE capacity >= 4
        BY <4>1, <4>2, PowersOfTwo
      <4>3. CASE ~(capacity >= 4)
        <5>1. capacity \div 4 = 0
          BY <4>1, <4>3
        <5> QED
          BY <5>1, Constants
      <4> QED
        BY <4>2, <4>3
    <3>3. Made(r.map, w, In(w.table))
      BY <2>7, <3>1, <3>2, ResizeKeeps
    <3> HIDE DEF r
    <3> QED
      BY <2>5, <2>6, <2>7, <3>3, MadeOfMade
  <2> HIDE DEF r
  <2>9. \/ Becomes(r.map)
        \/ Becomes(w)
    BY <2>1 DEF r, w
  <2>10. MapInv' /\ Held' = Held \ {e}
    BY <2>3, <2>6, <2>8, <2>9, BecomesMade
  <2>11. e \in Held
    BY <2>4 DEF Taken, Held
  <2> QED
    BY <2>2, <2>4, <2>10, <2>11 DEF MM!Take
<1> QED
  BY <1>4, <1>5

LEMMA RehashKeeps ==
  ASSUME MapInv, NEW n \in Rehashes, MapRehash(n)
  PROVE  MapInv' /\ MM!Rehash
<1> DEFINE want == NiceSize((n + size) * 2, MinSize)
           res(mem) == IF want = capacity THEN [map |-> Map(mem), err |-> "OK"]
                                          ELSE Resize(Map(mem), want, Grown(mem))
<1>1. PICK mem \in Allocations : Becomes(res(mem).map) /\ result' = <<"rehash", res(mem).err>>
  BY DEF MapRehash
<1> DEFINE m == Map(mem)
           r == res(mem)
<1>2. mem \in Nat /\ m.mem = mem /\ m.static = static_size /\ m.size = size
  BY MapAssumption DEF Map
<1>3. Sound(m) /\ In(m.table) = Held
  BY <1>2, MapSound
<1> HIDE DEF m
<1>4. want \in Nat /\ IsPower(want)
  <2>1. n \in Nat /\ size \in Nat
    BY <1>2, <1>3, SoundTable, MapAssumption
  <2>2. (n + size) * 2 \in Nat
    BY <2>1
  <2> QED
    BY <2>2, Constants, NiceSizeIsNice
<1> HIDE DEF want
<1>5. r.err \in {"OK", "EBADSLT", "ENOMEM"} /\ Made(r.map, m, Held)
  <2>1. CASE want = capacity
    <3>1. r.map = m /\ r.err = "OK"
      BY <2>1 DEF m
    <3>2. Made(m, m, Held)
      BY <1>3, SoundTable DEF Made
    <3> QED
      BY <3>1, <3>2
  <2>2. CASE want # capacity
    <3>1. r = Resize(m, want, Grown(mem))
      BY <2>2 DEF m
    <3>2. m.mem # 0 => Grows(Grown(mem), m.mem - 1)
      <4>1. Grows(Grown(mem), mem)
        BY <1>2, GrownGrows
      <4>2. \A x : Sound(x) /\ x.mem <= m.mem - 1 => x.mem <= mem
        BY <1>2, SoundTable
      <4> QED
        BY <4>1, <4>2 DEF Grows
    <3> QED
      BY <1>3, <1>4, <3>1, <3>2, ResizeKeeps
  <2> QED
    BY <2>1, <2>2
<1>6. Becomes(r.map) /\ result' = <<"rehash", r.err>>
  BY <1>1
<1> HIDE DEF r
<1>7. MapInv' /\ Held' = Held
  BY <1>2, <1>5, <1>6, BecomesMade
<1> QED
  BY <1>5, <1>6, <1>7 DEF MM!Rehash, MM!Errors

LEMMA ClearEmpties ==
  ASSUME MapInv, MapClear
  PROVE  MapInv' /\ MM!Clear
<1> DEFINE m == Map(0)
<1>1. Sound(m) /\ m.table = table /\ m.capacity = capacity /\ m.static = static_size
  BY DEF MapInv, Map
<1> HIDE DEF m
<1>2. /\ capacity \in Nat /\ IsPower(capacity) /\ capacity >= MinSize
      /\ DOMAIN table = 1..capacity
  BY <1>1, SoundTable DEF Sound
<1>3. /\ capacity' = capacity /\ size' = 0 /\ result' = <<"clear">>
      /\ static_size' = static_size /\ data_delete' = data_delete
  BY DEF MapClear
<1>4. table' \in [1..capacity -> {Vacant, Removed}] /\ table' \in [1..capacity -> Slots]
  BY <1>2 DEF MapClear, Slots
<1> DEFINE o == [table |-> table', size |-> 0, capacity |-> capacity,
                 static |-> static_size, mem |-> 0]
<1>5. o \in Maps
  BY <1>2, <1>4, TableIsSequence DEF MapInv, Maps
<1>6. o.table = table' /\ o.capacity = capacity /\ o.size = 0
  OBVIOUS
<1>7. Map(0)' = o
  BY <1>3 DEF Map
<1> HIDE DEF o
<1>8. Sound(o) /\ In(o.table) = {}
  BY <1>2, <1>4, <1>5, <1>6, EmptyIsSound
<1>9. Sound(Map(0))' /\ Held' = {}
  BY <1>6, <1>7, <1>8 DEF Sound, In, Held
<1> QED
  BY <1>3, <1>9 DEF MapInv, MM!Clear

LEMMA StepKeeps ==
  ASSUME MapInv, [Next]_vars
  PROVE  MapInv' /\ [MM!Next]_<<Held, result>>
<1>1. ASSUME NEW e \in Entries, MapInsert(e) PROVE MapInv' /\ MM!Next
  BY <1>1, InsertKeeps DEF MM!Next
<1>2. ASSUME NEW k \in Keys, MapTake(k) PROVE MapInv' /\ MM!Next
  <2>1. PICK e \in Entries : k = Key[e]
    BY DEF Keys
  <2> QED
    BY <1>2, <2>1, TakeKeeps DEF MM!Next
<1>3. ASSUME NEW n \in Rehashes, MapRehash(n) PROVE MapInv' /\ MM!Next
  BY <1>3, RehashKeeps DEF MM!Next
<1>4. ASSUME MapClear PROVE MapInv' /\ MM!Next
  BY <1>4, ClearEmpties DEF MM!Next
<1>5. ASSUME NEW b \in BOOLEAN, SetStaticSize(b)
      PROVE  MapInv' /\ UNCHANGED <<Held, result>>
  <2>1. /\ UNCHANGED <<table, size, capacity, data_delete, result>>
        /\ static_size' = b
    BY <1>5 DEF SetStaticSize
  <2>2. Sound(Map(0))'
    BY <2>1 DEF MapInv, Map, Sound, Maps
  <2> QED
    BY <2>1, <2>2 DEF MapInv, Held
<1>6. ASSUME UNCHANGED vars PROVE MapInv' /\ UNCHANGED <<Held, result>>
  BY <1>6 DEF vars, MapInv, Map, Held
<1> QED
  BY <1>1, <1>2, <1>3, <1>4, <1>5, <1>6 DEF Next

LEMMA AlwaysSound == Spec => []MapInv
<1>1. Init => MapInv
  BY InitEmpty
<1>2. MapInv /\ [Next]_vars => MapInv'
  BY StepKeeps
<1> QED
  BY <1>1, <1>2, PTL DEF Spec

\* The table has a power of two of slots, whatever resizes were made and
\* given up: the mask in map_lookup() and map_insert() stays in the table.
THEOREM TableStaysTyped == Spec => []TypeOK
<1>1. MapInv => TypeOK
  BY InvImplies
<1> QED
  BY <1>1, AlwaysSound, PTL

\* map_size() is the number of entries, and none is in two slots, also when a
\* resize was given up half way and the old table put back.
THEOREM SizeStaysExact == Spec => []SizeCounts
<1>1. MapInv => SizeCounts
  BY InvImplies
<1> QED
  BY <1>1, AlwaysSound, PTL

\* No removal, resize or clearing leaves an empty slot on the way map_lookup()
\* takes to an entry.
THEOREM EntriesStayReachable == Spec => []Reachable
<1>1. MapInv => Reachable
  BY InvImplies
<1> QED
  BY <1>1, AlwaysSound, PTL

\* map.c does what MultiMap promises: every call, whatever tables it makes and
\* whichever allocation fails, is a step of MultiMap on the entries held.
THEOREM TableIsMultiMap == Spec => ImplementsMultiMap
<1>1. Init => MM!Init
  BY InitEmpty DEF MM!Init, Init
<1>2. MapInv /\ [Next]_vars => [MM!Next]_<<Held, result>>
  BY StepKeeps
<1>3. MapInv /\ [Next]_vars => [MM!Next]_MM!vars
  BY <1>2 DEF MM!vars
<1> QED
  BY <1>1, <1>3, AlwaysSound, PTL DEF Spec, ImplementsMultiMap, MM!Spec
=============================================================================
