------------------------------ MODULE HashMap ------------------------------
(***************************************************************************)
(* src/lib/container/map.c: a hash table with open addressing, quadratic   *)
(* probing and tombstones, which grows before an insertion and shrinks     *)
(* after a removal.  map_resize() inserts the entries into a new table     *)
(* with map_insert(), which may itself resize the table it is filling.     *)
(*                                                                         *)
(* A slot holds Vacant (MAP_DATA_STATE_EMPTY), Removed (a tombstone) or an *)
(* entry; Key and Hash give the key of an entry and the hash of a key.     *)
(***************************************************************************)
EXTENDS Sizes, Sequences, FiniteSets

CONSTANTS
    Entries,
    Key,         \* the key of each entry
    Hash,        \* key_hash() of each key
    Vacant, Removed, None,
    MinSize,     \* MAP_DEFAULT_SIZE, a power of two
    Lower,       \* lower_bound: percentage below which the table shrinks
    Upper,       \* upper_bound: percentage from which the table grows
    Rehashes,    \* the arguments of map_rehash()
    Allocations  \* how many calloc() of a call succeed before one fails

Keys == {Key[e] : e \in Entries}

ASSUME MapAssumption ==
    /\ MinSize \in Nat /\ MinSize >= 2 /\ IsPower(MinSize)
    /\ Lower \in Nat /\ Upper \in Nat \ {0}
    /\ Rehashes \subseteq Nat /\ Allocations \subseteq Nat
    /\ {Vacant, Removed, None} \cap Entries = {}
    /\ Vacant # Removed /\ None \notin Nat
    /\ \A k \in Keys : Hash[k] \in Nat

VARIABLES
    table, size, capacity,
    static_size,   \* the table is not resized by map_insert() and map_take()
    data_delete,   \* map_clear() has a function to call on each entry
    result         \* what the last call was and returned

vars == <<table, size, capacity, static_size, data_delete, result>>

-----------------------------------------------------------------------------
(* The table as a value.  "mem" counts the allocations left to a call. *)

Maps == [table : Seq(Entries \cup {Vacant, Removed}), size : Nat, capacity : Nat,
         static : BOOLEAN, mem : Nat]

\* offset runs through 1, 3, 5, ... below the capacity, so the slots tried
\* lie 0, 1, 4, 9, ... after the first; slots count from 1
Probes(cap) == 0 .. (cap \div 2) - 1

Slot(k, n, cap) == 1 + ((Hash[k] + n * n) % cap)

\* the slot of the entry map_lookup() returns, or None
Lookup(t, cap, k) ==
    LET Seen(n) == t[Slot(k, n, cap)]
        stops == {n \in Probes(cap) : Seen(n) = Vacant \/
                     (Seen(n) \in Entries /\ Key[Seen(n)] = k)}
    IN  IF stops = {} \/ Seen(First(stops)) = Vacant
        THEN None
        ELSE Slot(k, First(stops), cap)

\* the slot map_insert() uses, or None
FreeSlot(t, cap, k) ==
    LET free == {n \in Probes(cap) : t[Slot(k, n, cap)] \notin Entries}
    IN  IF free = {} THEN None ELSE Slot(k, First(free), cap)

ShouldGrow(m) == (100 * m.size) \div m.capacity >= Upper

ShouldShrink(m) == (100 * m.size) \div m.capacity < Lower

\* the end of map_insert(): the entry is put into the first free slot tried
Put(m, e) ==
    LET slot == FreeSlot(m.table, m.capacity, Key[e])
    IN  IF slot = None
        THEN [map |-> m, err |-> "EBADSLT"]
        ELSE [map |-> [m EXCEPT !.table[slot] = e, !.size = @ + 1],
              err |-> "OK"]

\* the start of map_insert(), where "grown" gives the map its table has been
\* enlarged to
Roomy(m, grown) ==
    IF ~m.static /\ ShouldGrow(m) THEN grown[m][2 * m.capacity] ELSE m

\* the loop over the old table: the entries are inserted into the new one
Moved(m, fresh, grown) ==
    LET moved[i \in 0..m.capacity] ==
            IF i = 0 THEN [map |-> fresh, err |-> "OK"]
            ELSE LET r == moved[i - 1]
                 IN  IF r.err = "OK" /\ m.table[i] \in Entries
                     THEN Put(Roomy(r.map, grown), m.table[i]) ELSE r
    IN  moved[m.capacity]

\* a new table, for which calloc() has been called once
Fresh(m, want) ==
    LET cap == IF want > MinSize THEN want ELSE MinSize
    IN  [m EXCEPT !.table = [s \in 1..cap |-> Vacant], !.capacity = cap,
                  !.size = 0, !.mem = @ - 1]

\* ResizeForgets: a resize that fails half way loses the entries not yet moved
ResizeForgets(m, want, grown) ==
    IF m.mem = 0 THEN [map |-> m, err |-> "ENOMEM"] ELSE Moved(m, Fresh(m, want), grown)

\* ResizeRecounts: the size is not reset before the entries are moved
ResizeRecounts(m, want, grown) ==
    LET moved == Moved(m, [Fresh(m, want) EXCEPT !.size = m.size], grown)
    IN  IF m.mem = 0 THEN [map |-> m, err |-> "ENOMEM"]
        ELSE IF moved.err = "OK" THEN moved
        ELSE [map |-> [m EXCEPT !.mem = moved.map.mem], err |-> moved.err]

\* on failure the old table is put back
Resize(m, want, grown) ==
    LET moved == Moved(m, Fresh(m, want), grown)
    IN  IF m.mem = 0 THEN [map |-> m, err |-> "ENOMEM"]
        ELSE IF moved.err = "OK" THEN moved
        ELSE [map |-> [m EXCEPT !.mem = moved.map.mem], err |-> moved.err]

\* the loop in map_insert(): twice the capacity until every entry has a slot.
\* A resize uses up an allocation: what is done with at most n of them left
\* rests on what is done with n - 1.
Grown(left) ==
    LET grown[n \in 0..left] == [m \in Maps |-> [want \in Nat |->
            LET r == Resize(m, want, grown[n - 1])
            IN  IF n = 0 THEN m
                ELSE IF r.err = "EBADSLT" THEN grown[n - 1][r.map][2 * want]
                ELSE r.map]]
    IN  grown[left]

Insert(m, e) == Put(Roomy(m, Grown(m.mem)), e)

-----------------------------------------------------------------------------
(* The operations *)

Held == {table[s] : s \in DOMAIN table} \cap Entries

Map(mem) == [table |-> table, size |-> size, capacity |-> capacity,
             static |-> static_size, mem |-> mem]

Becomes(m) ==
    /\ table' = m.table
    /\ size' = m.size
    /\ capacity' = m.capacity
    /\ UNCHANGED <<static_size, data_delete>>

\* the entry is refused when all slots tried are taken
MapInsert(e) ==
    /\ e \notin Held
    /\ \E mem \in Allocations :
        LET r == Insert(Map(mem), e)
        IN  Becomes(r.map) /\ result' = <<"insert", e, r.err>>

\* MapTakeVacates: the slot is emptied instead of marked as removed
MapTakeVacates(k) ==
    LET slot == Lookup(table, capacity, k)
    IN  /\ slot # None
        /\ Becomes([Map(0) EXCEPT !.table[slot] = Vacant, !.size = @ - 1])
        /\ result' = <<"take", k, table[slot]>>

\* whether the table could be shrunk is not reported
MapTake(k) ==
    LET slot == Lookup(table, capacity, k)
        without(mem) == [Map(mem) EXCEPT !.table[slot] = Removed, !.size = @ - 1]
    IN  \/ /\ slot # None
           /\ result' = <<"take", k, table[slot]>>
           /\ \E mem \in Allocations :
               LET m == without(mem)
               IN  Becomes(IF ~static_size /\ ShouldShrink(m)
                           THEN Resize(m, capacity \div 4, Grown(mem)).map ELSE m)
        \/ /\ slot = None
           /\ result' = <<"take", k, None>>
           /\ UNCHANGED <<table, size, capacity, static_size, data_delete>>

MapRehash(n) ==
    LET want == NiceSize((n + size) * 2, MinSize)
    IN  \E mem \in Allocations :
            LET r == IF want = capacity THEN [map |-> Map(mem), err |-> "OK"]
                                        ELSE Resize(Map(mem), want, Grown(mem))
            IN  Becomes(r.map) /\ result' = <<"rehash", r.err>>

\* without data_delete the table is zeroed, with it only the slots of the
\* entries it was called on are emptied
MapClear ==
    /\ size' = 0
    /\ table' = [s \in DOMAIN table |->
                    IF data_delete /\ table[s] = Removed THEN Removed
                                                         ELSE Vacant]
    /\ result' = <<"clear">>
    /\ UNCHANGED <<capacity, static_size, data_delete>>

SetStaticSize(b) ==
    /\ static_size' = b
    /\ UNCHANGED <<table, size, capacity, data_delete, result>>

Init ==
    /\ capacity = NiceSize(2 * MinSize, MinSize)
    /\ table = [s \in 1..capacity |-> Vacant]
    /\ size = 0
    /\ static_size = FALSE
    /\ data_delete \in BOOLEAN
    /\ result = <<"init">>

Next ==
    \/ \E e \in Entries : MapInsert(e)
    \/ \E k \in Keys : MapTake(k)
    \/ \E n \in Rehashes : MapRehash(n)
    \/ MapClear
    \/ \E b \in BOOLEAN : SetStaticSize(b)

Spec == Init /\ [][Next]_vars

-----------------------------------------------------------------------------
(* Correctness *)

TypeOK ==
    /\ IsPower(capacity) /\ capacity >= MinSize
    /\ table \in [1..capacity -> Entries \cup {Vacant, Removed}]
    /\ size \in 0..capacity
    /\ static_size \in BOOLEAN /\ data_delete \in BOOLEAN

\* map_size() is the number of entries, and no entry is in two slots.
SizeCounts ==
    /\ size = Cardinality(Held)
    /\ size = Cardinality({s \in DOMAIN table : table[s] \in Entries})

\* map_lookup() gets to every entry: neither a removal, nor a resize that
\* fails half way, nor map_clear() leaves a gap on the way to it.
Reachable ==
    \A s \in DOMAIN table : table[s] \in Entries =>
        \E n \in Probes(capacity) :
            /\ Slot(Key[table[s]], n, capacity) = s
            /\ \A o \in 0..n : table[Slot(Key[table[s]], o, capacity)] # Vacant

MM == INSTANCE MultiMap WITH held <- Held

\* The hash table implements the map of MultiMap: map_take() finds an entry
\* whenever there is one, and neither a refused insertion nor a resize, done,
\* failed or given up half way, loses or duplicates an entry.
ImplementsMultiMap == MM!Spec
=============================================================================
