-------------------------------- MODULE Heap --------------------------------
(***************************************************************************)
(* src/lib/container/heap.c: a binary heap in an array that doubles when   *)
(* it is full and is halved when less than half of it is used.             *)
(*                                                                         *)
(* heap.data holds the slots in use only; a call that would use a slot     *)
(* beyond the capacity is a fault, and the last one of the model.          *)
(***************************************************************************)
EXTENDS Calls

CONSTANT HeapDefault   \* HEAP_DEFAULT_CAPACITY

ASSUME HeapAssumption ==
    HeapDefault \in Nat /\ IsPower(HeapDefault) /\ HeapDefault <= TopBit

VARIABLE heap

HeapItems == IF heap = None THEN {} ELSE {heap.data[i] : i \in DOMAIN heap.data}

Parent(node) == (node - 1) \div 2

-----------------------------------------------------------------------------
(* Order: Rises(n) and Sinks(n) follow one element through the array *)

\* _heap_heapify_up(): the last element passes each parent that is not greater
HeapifyUp(data, node) ==
    LET passes(n) == n > 0 /\ Rank[data[Parent(n)]] <= Rank[data[node]]
        path[n \in 0..node] == IF passes(n) THEN {n} \cup path[Parent(n)] ELSE {n}
    IN  [n \in DOMAIN data |->
            IF n \notin path[node] THEN data[n]
            ELSE IF passes(n) THEN data[Parent(n)] ELSE data[node]]

\* LeftOnly: a right child is taken only where there is no greater left one
LeftOnly(data, n, x) ==
    LET beats(c, r) == c \in DOMAIN data /\ Rank[data[c]] > r
    IN  IF beats(2 * n + 1, x) THEN 2 * n + 1
        ELSE IF beats(2 * n + 2, x) THEN 2 * n + 2 ELSE n

\* the greatest of the element that sinks through n, of rank x, and n's children
Child(data, n, x) ==
    LET beats(c, r) == c \in DOMAIN data /\ Rank[data[c]] > r
        left == 2 * n + 1
        right == 2 * n + 2
    IN  IF beats(right, IF beats(left, x) THEN Rank[data[left]] ELSE x) THEN right
        ELSE IF beats(left, x) THEN left ELSE n

\* _heap_heapify_down(): the first element gives way to greater children
HeapifyDown(data) ==
    LET child(n) == Child(data, n, Rank[data[0]])
        path[n \in DOMAIN data] == IF child(n) = n THEN {n} ELSE {n} \cup path[child(n)]
    IN  [n \in DOMAIN data |->
            IF n \notin path[0] THEN data[n]
            ELSE IF child(n) = n THEN data[0] ELSE data[child(n)]]

-----------------------------------------------------------------------------
(* Calls *)

\* heap_new(), heap_init()
HeapInit(capacity) ==
    /\ heap = None
    /\ \/ heap' = [data |-> <<>>, size |-> 0, deletes |-> FALSE,
                   capacity |-> NiceSize(capacity, HeapDefault)]
          /\ Returns(None)
       \/ Returns(Failed) /\ UNCHANGED heap

HeapEmpty == heap.size = 0

\* _heap_resize()
ResizedTo(capacity) == IF capacity < HeapDefault THEN HeapDefault ELSE capacity

\* FullTooLate: the last slot is one beyond the end
FullTooLate == heap.size > heap.capacity

Full == heap.size >= heap.capacity

InsertWith(d, capacity) ==
    IF heap.size < capacity
    THEN /\ heap' = [heap EXCEPT !.size = @ + 1, !.capacity = capacity,
                        !.data = HeapifyUp([i \in 0..heap.size |->
                                    IF i = heap.size THEN d ELSE heap.data[i]], heap.size)]
         /\ Returns(d)
    ELSE Stray("heap_insert") /\ UNCHANGED <<heap, returned>>

\* heap_insert(): realloc() may fail where the array has to grow
HeapInsert(d) ==
    \/ ~Full /\ InsertWith(d, heap.capacity)
    \/ Full /\ InsertWith(d, ResizedTo(Wrap(2 * heap.capacity)))
    \/ Full /\ Returns(Failed) /\ UNCHANGED heap

\* heap_take(), where heap_empty() says no; if realloc() fails the array stays
HeapTake ==
    LET size == heap.size - 1
        half == heap.capacity \div 2
        rest == [i \in 0..size - 1 |-> heap.data[IF i = 0 THEN size ELSE i]]
    IN  /\ ~HeapEmpty
        /\ IF size < heap.capacity
           THEN /\ \E capacity \in {heap.capacity} \cup
                        (IF size < half THEN {ResizedTo(half)} ELSE {}) :
                      heap' = [heap EXCEPT !.size = size, !.capacity = capacity,
                                  !.data = HeapifyDown(rest)]
                /\ Returns(heap.data[0])
           ELSE Stray("heap_take") /\ UNCHANGED <<heap, returned>>

\* heap_retrieve(), where heap_empty() says no
HeapRetrieve ==
    /\ ~HeapEmpty
    /\ UNCHANGED heap
    /\ IF heap.size <= heap.capacity
       THEN Returns(heap.data[0])
       ELSE Stray("heap_retrieve") /\ UNCHANGED returned

\* heap_clear(): with a data_delete "while(heap->size--)" takes the size below 0
HeapClear ==
    IF heap.size > heap.capacity /\ heap.deletes
    THEN Stray("heap_clear") /\ UNCHANGED <<heap, returned>>
    ELSE /\ heap' = [heap EXCEPT !.data = <<>>,
                                 !.size = IF heap.deletes THEN UIntMax ELSE 0]
         /\ Returns(None)

HeapSetDataDelete ==
    /\ heap' = [heap EXCEPT !.deletes = ~@]
    /\ Returns(None)

\* heap_destroy(), heap_delete()
HeapDestroy ==
    IF heap.size > heap.capacity /\ heap.deletes
    THEN Stray("heap_destroy") /\ UNCHANGED <<heap, returned>>
    ELSE heap' = None /\ Returns(None)

HeapNext ==
    /\ Fine
    /\ \/ \E c \in 0..TopBit : HeapInit(c)
       \/ /\ heap # None
          /\ \/ \E d \in Data \ HeapItems : HeapInsert(d)
             \/ HeapTake \/ HeapRetrieve \/ HeapClear
             \/ HeapSetDataDelete \/ HeapDestroy

-----------------------------------------------------------------------------
(* Properties *)

\* A heap yields the greatest of the elements it was given, and loses none of
\* them, through every doubling and halving of the array, whether realloc()
\* succeeds or not (heap_insert(), heap_take()).
PQ == INSTANCE PriorityQueue WITH items <- HeapItems
HeapServes ==
    PQ!Init /\ [][heap # None /\ Fine' => PQ!Next]_<<heap, returned>>

\* No call leaves the array, with two exceptions: after a heap_clear() with a
\* data_delete, and when 2^31 elements are in the heap (heap_insert(),
\* heap_take(), heap_clear()).
HeapStaysInside ==
    /\ fault \in {"heap_take", "heap_retrieve", "heap_clear", "heap_destroy"}
          => heap.size = UIntMax
    /\ fault = "heap_insert" => heap.size \in {UIntMax, TopBit}
=============================================================================
