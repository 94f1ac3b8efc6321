------------------------------- MODULE Vector -------------------------------
(***************************************************************************)
(* src/lib/container/vector.c: a sequence in an array that doubles when it *)
(* is full, with a linear and a binary search.  The size is the length of  *)
(* vec.data; indices count from 0, as in the code.                         *)
(***************************************************************************)
EXTENDS Calls, SequencesExt

CONSTANT VectorDefault   \* VECTOR_DEFAULT_CAPACITY

ASSUME VectorAssumption ==
    VectorDefault \in Nat /\ IsPower(VectorDefault) /\ VectorDefault <= TopBit

VARIABLE vec

NotFound == UIntMax

Outside == -1

-----------------------------------------------------------------------------
(* Searches *)

\* data_compare(), or the pointers where it is not set
Same(x, d) == IF vec.compares THEN Rank[x] = Rank[d] ELSE x = d

Matches(data, d) == {i \in DOMAIN data : Same(data[i], d)}

\* vector_index_of()
IndexOf(data, d) == IF Matches(data, d) = {} THEN NotFound ELSE Min(Matches(data, d)) - 1

\* TakeAllFromBack: an unsigned index counts down and stops at 0
TakeAllFromBack(data, d) ==
    IF data = <<>> THEN data
    ELSE <<Head(data)>> \o SelectSeq(Tail(data), LAMBDA x : ~Same(x, d))

\* vector_take_all(): the element after a removed one takes its index and is
\* passed over
TakeAllOf(data, d) ==
    LET scan[s \in Seq(Data)] ==
            IF s = <<>> THEN s
            ELSE IF ~Same(Head(s), d) THEN <<Head(s)>> \o scan[Tail(s)]
            ELSE IF Len(s) = 1 THEN <<>> ELSE <<s[2]>> \o scan[SubSeq(s, 3, Len(s))]
    IN  scan[data]

Middle(l, r) == Wrap(l + r) \div 2

\* the l and the r of a binary search
Spans == (0..UIntMax) \X (0..UIntMax)

\* vector_index_of_sorted(): r goes from 0 to UINT_MAX
IndexOfSorted(data, d) ==
    LET search[s \in Spans] ==
            LET m == Middle(s[1], s[2])
            IN  IF s[1] > s[2] THEN NotFound
                ELSE IF m >= Len(data) THEN Outside
                ELSE IF Rank[d] < Rank[data[m + 1]] THEN search[<<s[1], Wrap(m - 1)>>]
                ELSE IF Rank[d] > Rank[data[m + 1]] THEN search[<<m + 1, s[2]>>] ELSE m
    IN  IF data = <<>> THEN NotFound ELSE search[<<0, Len(data) - 1>>]

\* PlaceBehind: the search goes on to the left of an element that is less
PlaceBehind(data, d) ==
    LET search[s \in Spans] ==
            LET m == Middle(s[1], s[2])
            IN  IF s[1] > s[2] \/ s[2] = UIntMax THEN s[1]
                ELSE IF Rank[d] = Rank[data[m + 1]] THEN m
                ELSE search[<<s[1], Wrap(m - 1)>>]
    IN  IF data = <<>> THEN 0 ELSE search[<<0, Len(data) - 1>>]

\* vector_insert_sorted(): this search stops at r = UINT_MAX
PlaceSorted(data, d) ==
    LET search[s \in Spans] ==
            LET m == Middle(s[1], s[2])
            IN  IF s[1] > s[2] \/ s[2] = UIntMax THEN s[1]
                ELSE IF Rank[d] < Rank[data[m + 1]] THEN search[<<s[1], Wrap(m - 1)>>]
                ELSE IF Rank[d] > Rank[data[m + 1]] THEN search[<<m + 1, s[2]>>] ELSE m
    IN  IF data = <<>> THEN 0 ELSE search[<<0, Len(data) - 1>>]

Sorted(data) == \A i, j \in DOMAIN data : i < j => Rank[data[i]] <= Rank[data[j]]

-----------------------------------------------------------------------------
(* Calls *)

\* vector_new(), vector_init()
VectorInit(capacity) ==
    /\ vec = None
    /\ \/ vec' = [data |-> <<>>, capacity |-> NiceSize(capacity, VectorDefault),
                  compares |-> FALSE]
          /\ Returns(None)
       \/ Returns(Failed) /\ UNCHANGED vec

Cut(data, capacity) == IF capacity < Len(data) THEN SubSeq(data, 1, capacity) ELSE data

\* vector_set_capacity(), vector_squeeze(): what does not fit is cut off first,
\* even if realloc() fails then
VectorSetCapacity(capacity) ==
    LET nice == NiceSize(capacity, VectorDefault)
        cut == [vec EXCEPT !.data = Cut(@, capacity)]
    IN  IF NeverNice(capacity, VectorDefault)
        THEN Stray("get_nice_size") /\ UNCHANGED <<vec, returned>>
        ELSE \/ vec' = [cut EXCEPT !.capacity = nice] /\ Returns(None)
             \/ nice # vec.capacity /\ vec' = cut /\ Returns(Failed)

VectorFull == Len(vec.data) >= vec.capacity

Shifted(data, i, d, capacity) ==
    IF i <= Len(data) /\ Len(data) < capacity
    THEN /\ vec' = [vec EXCEPT !.data = InsertAt(data, i + 1, d), !.capacity = capacity]
         /\ Returns(d)
    ELSE Stray("vector_insert_at") /\ UNCHANGED <<vec, returned>>

\* vector_insert_at() and, with i at the ends, vector_insert_front() and _back();
\* the capacity doubles to 0 at 2^31
VectorInsertAt(i, d) ==
    LET twice == Wrap(2 * vec.capacity)
        cut == Cut(vec.data, twice)
    IN  \/ ~VectorFull /\ Shifted(vec.data, i, d, vec.capacity)
        \/ VectorFull /\ Shifted(cut, i, d, NiceSize(twice, VectorDefault))
        \/ VectorFull /\ vec' = [vec EXCEPT !.data = cut] /\ Returns(Failed)

VectorInsertSorted(d) ==
    /\ vec.compares /\ Sorted(vec.data)
    /\ VectorInsertAt(PlaceSorted(vec.data, d), d)

\* vector_take_at(), vector_take_front(), vector_take_back()
VectorTakeAt(i) ==
    /\ vec' = [vec EXCEPT !.data = RemoveAt(@, i + 1)]
    /\ Returns(vec.data[i + 1])

\* vector_take(); NULL if there is none
VectorTake(d) ==
    IF Matches(vec.data, d) # {} THEN VectorTakeAt(IndexOf(vec.data, d))
    ELSE Returns(None) /\ UNCHANGED vec

VectorTakeAll(d) ==
    /\ vec' = [vec EXCEPT !.data = TakeAllOf(@, d)]
    /\ Returns(None)

\* vector_take_sorted(); the bound on the size keeps the search finite
VectorTakeSorted(d) ==
    LET i == IndexOfSorted(vec.data, d)
    IN  /\ vec.compares /\ Sorted(vec.data) /\ Len(vec.data) < TopBit
        /\ \/ i = Outside /\ Stray("vector_index_of_sorted") /\ UNCHANGED <<vec, returned>>
           \/ i = NotFound /\ Returns(None) /\ UNCHANGED vec
           \/ i \in 0..Len(vec.data) - 1 /\ VectorTakeAt(i)

\* vector_sort(): qsort_r() leaves the order of equal elements open
VectorSort ==
    /\ vec.compares
    /\ \E data \in SetToAllKPermutations(DOMAIN vec.data) :
          /\ Len(data) = Len(vec.data)
          /\ vec' = [vec EXCEPT !.data = [i \in DOMAIN data |-> vec.data[data[i]]]]
          /\ Sorted(vec'.data)
    /\ Returns(None)

VectorClear ==
    /\ vec' = [vec EXCEPT !.data = <<>>]
    /\ Returns(None)

VectorSetDataCompare ==
    /\ vec' = [vec EXCEPT !.compares = ~@]
    /\ Returns(None)

\* vector_destroy(), vector_delete()
VectorDestroy == vec' = None /\ Returns(None)

VectorNext ==
    /\ Fine
    /\ \/ \E c \in 0..TopBit : VectorInit(c)
       \/ /\ vec # None
          /\ \/ \E d \in Data :
                   \/ \E i \in 0..Len(vec.data) : VectorInsertAt(i, d)
                   \/ VectorInsertSorted(d)
                   \/ VectorTake(d) \/ VectorTakeAll(d) \/ VectorTakeSorted(d)
             \/ \E i \in 0..Len(vec.data) - 1 : VectorTakeAt(i)
             \/ \E c \in 0..UIntMax : VectorSetCapacity(c)
             \/ VectorSort \/ VectorClear \/ VectorSetDataCompare \/ VectorDestroy

-----------------------------------------------------------------------------
(* Properties *)

\* In a sorted vector the binary searches agree with a look at every element:
\* what is there is found, a new element is given a place that keeps the order,
\* and only a search for something less than every element leaves the array
\* (vector_index_of_sorted(), vector_insert_sorted()).
VectorSearches ==
    vec # None /\ (vec.compares /\ Sorted(vec.data) /\ Len(vec.data) < TopBit) =>
        \A d \in Data :
            LET i == IndexOfSorted(vec.data, d)
                equal == {j \in DOMAIN vec.data : Rank[vec.data[j]] = Rank[d]}
            IN  /\ Sorted(InsertAt(vec.data, PlaceSorted(vec.data, d) + 1, d))
                /\ equal # {} => i + 1 \in equal
                /\ equal = {} => i \in {NotFound, Outside}
                /\ i = Outside <=> vec.data # <<>>
                       /\ \A j \in DOMAIN vec.data : Rank[d] < Rank[vec.data[j]]

\* vector_take_all() takes nothing but matches, and what stays keeps its order; a
\* match stays only right behind one that is taken, so that all are taken where
\* no two neighbours match (vector_take_all()).
TakeAllTakes ==
    vec # None => \A d \in Data :
        LET data == vec.data
            left == TakeAllOf(data, d)
            matches == Matches(data, d)
        IN  \E stay \in SUBSET DOMAIN data :
               /\ DOMAIN data \ matches \subseteq stay
               /\ \A i \in stay \cap matches : i - 1 \in matches \ stay
               /\ Len(left) = Cardinality(stay)
               /\ \A i \in stay : left[Cardinality({j \in stay : j <= i})] = data[i]

\* Outside of the binary search, the elements stay inside the array until there
\* are 2^31 of them (vector_insert_at()).
VectorStaysInside ==
    /\ fault = "vector_insert_at" => Len(vec.data) = TopBit
    /\ vec # None => Len(vec.data) <= vec.capacity
=============================================================================
