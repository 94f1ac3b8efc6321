---------------------------- MODULE PartsProofs ----------------------------
(***************************************************************************)
(* Proofs about the sequential parts as MCParts composes them, for any     *)
(* elements, bytes and ranks, any width of an unsigned int and any default *)
(* capacity: when a call leaves the memory of its object, that a heap is a *)
(* priority queue and a buffer a stream, that the searches of a vector     *)
(* find what is there, which matches vector_take_all() leaves, and that a  *)
(* memory pool loses no chunk.                                             *)
(***************************************************************************)
EXTENDS MCParts, Induction

-----------------------------------------------------------------------------
(* Sizes *)

\* Of two powers of two the greater one is at least twice the other.
LEMMA PowersApart ==
  ASSUME NEW a \in Nat, NEW b \in Nat, IsPower(a), IsPower(b), a < b
  PROVE  2 * a <= b
<1>1. PICK m \in 0..a : a = Power[m]
  BY DEF IsPower
<1>2. PICK n \in 0..b : b = Power[n]
  BY DEF IsPower
<1> DEFINE S == {k \in Nat : \A i \in 0..k : Power[i] <= Power[k]}
<1>3. 0 \in S
  BY PowerOfTwo
<1>4. ASSUME NEW k \in Nat, k \in S PROVE k + 1 \in S
  <2> SUFFICES ASSUME NEW i \in 0..k + 1 PROVE Power[i] <= Power[k + 1]
    OBVIOUS
  <2>1. Power[k] \in Nat /\ Power[k + 1] = 2 * Power[k]
    BY PowerOfTwo
  <2>2. CASE i = k + 1
    BY <2>1, <2>2
  <2>3. CASE i \in 0..k
    <3>1. Power[i] <= Power[k] /\ Power[i] \in Nat
      BY <1>4, <2>3, PowerOfTwo
    <3> QED
      BY <2>1, <3>1
  <2> QED
    BY <2>2, <2>3
<1>5. Nat \subseteq S
  <2> HIDE DEF S
  <2> QED
    BY <1>3, <1>4, NumberInduction
<1>6. m < n
  <2> SUFFICES ASSUME n <= m PROVE FALSE
    OBVIOUS
  <2>1. m \in S /\ n \in 0..m
    BY <1>5
  <2>2. Power[n] <= Power[m]
    BY <2>1
  <2> QED
    BY <1>1, <1>2, <2>2
<1>7. n \in S /\ m + 1 \in 0..n
  BY <1>5, <1>6
<1>8. Power[m + 1] <= Power[n] /\ Power[m + 1] = 2 * Power[m]
  BY <1>7, PowerOfTwo
<1> QED
  BY <1>1, <1>2, <1>8

\* get_nice_size() gives the least power of two it may give.
LEMMA NiceSizeIsLeast ==
  ASSUME NEW m \in Nat, NEW min \in Nat, NEW p \in Nat,
         IsPower(min), IsPower(p), m <= p, min <= p
  PROVE  NiceSize(m, min) <= p
<1>1. CASE m < min
  BY <1>1 DEF NiceSize
<1>2. CASE ~(m < min)
  <2> DEFINE S == {q \in {Power[n] : n \in 0..m} : q >= m}
  <2>1. S \subseteq Nat /\ Power[m] \in S
    BY PowerOfTwo
  <2>2. NiceSize(m, min) = First(S)
    BY <1>2 DEF NiceSize
  <2>3. \A o \in S : First(S) <= o
    BY <2>1, FirstIsLeast
  <2>4. First(S) \in Nat /\ IsPower(First(S))
    <3>1. First(S) \in S
      BY <2>1, FirstIsLeast
    <3>2. PICK n \in 0..m : First(S) = Power[n]
      BY <3>1
    <3> HIDE DEF S
    <3> QED
      BY <3>2, PowerOfTwo, PowerOfTwoIs
  <2>5. PICK k \in 0..p : p = Power[k]
    BY DEF IsPower
  <2>6. CASE k <= m
    <3>1. p \in S
      BY <2>5, <2>6
    <3> QED
      BY <2>2, <2>3, <3>1
  <2>7. CASE k > m
    <3> SUFFICES ASSUME p < First(S) PROVE FALSE
      BY <2>2, <2>4
    <3>1. 2 * p <= First(S)
      BY <2>4, PowersApart
    <3>2. First(S) <= Power[m] /\ Power[m] \in Nat
      BY <2>1, <2>3
    <3>3. Power[m] <= p
      <4> SUFFICES ASSUME p < Power[m] PROVE FALSE
        BY <3>2
      <4> DEFINE T == {i \in Nat : Power[m] <= Power[m + i]}
      <4>1. 0 \in T
        BY <3>2
      <4>2. ASSUME NEW i \in Nat, i \in T PROVE i + 1 \in T
        <5>1. Power[m + i] \in Nat /\ Power[(m + i) + 1] = 2 * Power[m + i]
          BY PowerOfTwo
        <5> QED
          BY <3>2, <4>2, <5>1, m + (i + 1) = (m + i) + 1
      <4> HIDE DEF T
      <4>3. k - m \in T
        BY <2>7, <4>1, <4>2, NumberInduction
      <4> QED
        BY <2>5, <3>2, <4>3, m + (k - m) = k DEF T
    <3> HIDE DEF S
    <3> QED
      BY <2>4, <3>1, <3>2, <3>3
  <2> QED
    BY <2>6, <2>7
<1> QED
  BY <1>1, <1>2

\* A power of two halves.
LEMMA HalfOfPower ==
  ASSUME NEW c \in Nat, IsPower(c), c >= 2
  PROVE  c \div 2 \in Nat /\ IsPower(c \div 2) /\ c = 2 * (c \div 2)
<1>1. PICK n \in 0..c : c = Power[n]
  BY DEF IsPower
<1>2. n # 0
  BY <1>1, PowerOfTwo
<1>3. n - 1 \in Nat /\ (n - 1) + 1 = n
  BY <1>2
<1>4. Power[n - 1] \in Nat /\ c = 2 * Power[n - 1]
  BY <1>1, <1>3, PowerOfTwo
<1>5. c \div 2 = Power[n - 1]
  BY <1>4
<1> QED
  BY <1>3, <1>4, <1>5, PowerOfTwoIs

\* The limits of an unsigned int.
LEMMA Limits ==
  /\ UIntRange \in Nat /\ UIntRange >= 4 /\ UIntRange = 2 * TopBit
  /\ TopBit \in Nat /\ TopBit >= 2 /\ IsPower(TopBit)
  /\ UIntMax \in Nat /\ UIntMax = UIntRange - 1 /\ TopBit < UIntMax
  /\ Quarter \in Nat /\ TopBit = 2 * Quarter
<1>1. PICK w \in 2..32 : UIntRange = Power[w]
  BY UIntAssumption
<1>2. w - 1 \in Nat /\ (w - 1) + 1 = w /\ w - 2 \in Nat /\ (w - 2) + 1 = w - 1
  OBVIOUS
<1>3. /\ Power[w - 2] \in Nat /\ Power[w - 2] >= 1
      /\ Power[w - 1] = 2 * Power[w - 2] /\ Power[w] = 2 * Power[w - 1]
  BY <1>2, PowerOfTwo
<1>4. IsPower(Power[w - 1])
  BY <1>2, PowerOfTwoIs
<1>5. TopBit = Power[w - 1]
  BY <1>1, <1>3 DEF TopBit
<1> QED
  BY <1>1, <1>3, <1>4, <1>5 DEF UIntMax, Quarter

\* Numbers that an unsigned int holds are kept, and 2 ^ 32 becomes 0.
LEMMA Wraps ==
  /\ \A n \in Nat : Wrap(n) \in Nat /\ Wrap(n) < UIntRange
  /\ \A n \in Nat : n < UIntRange => Wrap(n) = n
  /\ Wrap(UIntRange) = 0
BY Limits DEF Wrap

\* get_nice_size() stays below the greatest power of two if what it is asked for
\* does.
LEMMA NiceSizeFits ==
  ASSUME NEW m \in Nat, NEW min \in Nat, IsPower(min), m <= TopBit, min <= TopBit
  PROVE  /\ NiceSize(m, min) \in Nat /\ IsPower(NiceSize(m, min))
         /\ m <= NiceSize(m, min) /\ min <= NiceSize(m, min) /\ NiceSize(m, min) <= TopBit
BY Limits, NiceSizeIsNice, NiceSizeIsLeast

\* A capacity that doubles stays a power of two, or becomes 0.
LEMMA Doubles ==
  ASSUME NEW c \in Nat, IsPower(c), c <= TopBit
  PROVE  \/ c < TopBit /\ Wrap(2 * c) = 2 * c /\ IsPower(2 * c) /\ 2 * c <= TopBit
         \/ c = TopBit /\ Wrap(2 * c) = 0
<1>1. CASE c < TopBit
  <2>1. 2 * c <= TopBit /\ IsPower(2 * c)
    BY <1>1, Limits, PowersApart, PowersOfTwo
  <2>2. 2 * c \in Nat /\ 2 * c < UIntRange
    BY <2>1, Limits
  <2> QED
    BY <1>1, <2>1, <2>2, Wraps
<1>2. CASE c = TopBit
  BY <1>2, Limits, Wraps
<1> QED
  BY <1>1, <1>2, Limits

-----------------------------------------------------------------------------
(* Faults *)

HeapFaults == {"heap_insert", "heap_take", "heap_retrieve", "heap_clear", "heap_destroy"}
VectorFaults == {"vector_insert_at", "vector_index_of_sorted", "get_nice_size"}
BufferFaults == {"buffer_write", "buffer_read", "buffer_clear_accessed",
                 "buffer_clear_unaccessed", "buffer_clone", "get_nice_size"}

\* Each part leaves faults of its own, and goes on only while there is none.
LEMMA HeapLeaves ==
  HeapNext => Fine /\ fault' \in {"none"} \cup HeapFaults
<1> SUFFICES ASSUME HeapNext PROVE Fine /\ fault' \in {"none"} \cup HeapFaults
  OBVIOUS
<1> USE DEF Returns, Stray, Fine, HeapFaults
<1>1. Fine
  BY DEF HeapNext
<1>2. ASSUME NEW c, HeapInit(c) PROVE fault' \in {"none"} \cup HeapFaults
  BY <1>1, <1>2 DEF HeapInit
<1>3. ASSUME NEW d, HeapInsert(d) PROVE fault' \in {"none"} \cup HeapFaults
  BY <1>1, <1>3 DEF HeapInsert, InsertWith
<1>4. ASSUME HeapTake PROVE fault' \in {"none"} \cup HeapFaults
  BY <1>1, <1>4 DEF HeapTake
<1>5. ASSUME HeapRetrieve \/ HeapClear \/ HeapSetDataDelete \/ HeapDestroy
      PROVE  fault' \in {"none"} \cup HeapFaults
  BY <1>1, <1>5 DEF HeapRetrieve, HeapClear, HeapSetDataDelete, HeapDestroy
<1> QED
  BY <1>1, <1>2, <1>3, <1>4, <1>5 DEF HeapNext

LEMMA VectorLeaves ==
  VectorNext => Fine /\ fault' \in {"none"} \cup VectorFaults
<1> SUFFICES ASSUME VectorNext PROVE Fine /\ fault' \in {"none"} \cup VectorFaults
  OBVIOUS
<1> USE DEF Returns, Stray, Fine, VectorFaults
<1>1. Fine
  BY DEF VectorNext
<1>2. ASSUME NEW c, VectorInit(c) \/ VectorSetCapacity(c)
      PROVE  fault' \in {"none"} \cup VectorFaults
  BY <1>1, <1>2 DEF VectorInit, VectorSetCapacity
<1>3. ASSUME NEW d, NEW i, VectorInsertAt(i, d) PROVE fault' \in {"none"} \cup VectorFaults
  BY <1>1, <1>3 DEF VectorInsertAt, Shifted
<1>4. ASSUME NEW d, VectorInsertSorted(d) PROVE fault' \in {"none"} \cup VectorFaults
  BY <1>1, <1>3, <1>4 DEF VectorInsertSorted
<1>5. ASSUME NEW d, VectorTake(d) \/ VectorTakeAll(d) \/ VectorTakeSorted(d)
      PROVE  fault' \in {"none"} \cup VectorFaults
  BY <1>1, <1>5 DEF VectorTake, VectorTakeAll, VectorTakeSorted, VectorTakeAt
<1>6. ASSUME NEW i, VectorTakeAt(i) PROVE fault' \in {"none"} \cup VectorFaults
  BY <1>1, <1>6 DEF VectorTakeAt
<1>7. ASSUME VectorSort \/ VectorClear \/ VectorSetDataCompare \/ VectorDestroy
      PROVE  fault' \in {"none"} \cup VectorFaults
  BY <1>1, <1>7 DEF VectorSort, VectorClear, VectorSetDataCompare, VectorDestroy
<1> QED
  BY <1>1, <1>2, <1>3, <1>4, <1>5, <1>6, <1>7 DEF VectorNext

LEMMA BufferLeaves ==
  BufferNext => Fine /\ fault' \in {"none"} \cup BufferFaults
<1> SUFFICES ASSUME BufferNext PROVE Fine /\ fault' \in {"none"} \cup BufferFaults
  OBVIOUS
<1> USE DEF Returns, Stray, Fine, BufferFaults
<1>1. Fine
  BY DEF BufferNext
<1>2. ASSUME NEW n, BufferInit(n) PROVE fault' \in {"none"} \cup BufferFaults
  BY <1>1, <1>2 DEF BufferInit
<1>3. ASSUME NEW n, BufferPrepareWrite(n) \/ BufferSqueeze
      PROVE  fault' \in {"none"} \cup BufferFaults
  BY <1>1, <1>3 DEF BufferPrepareWrite, BufferSqueeze, Resize
<1>4. ASSUME NEW n, BufferRead(n) \/ BufferWrite(n) \/ BufferClone(n)
      PROVE  fault' \in {"none"} \cup BufferFaults
  BY <1>1, <1>4 DEF BufferRead, BufferWrite, BufferClone
<1>5. ASSUME \/ BufferClear \/ BufferDestroy
             \/ BufferClearAccessed \/ BufferClearUnaccessed
      PROVE  fault' \in {"none"} \cup BufferFaults
  BY <1>1, <1>5 DEF BufferClear, BufferDestroy, BufferClearAccessed,
     BufferClearUnaccessed, BufferRemove
<1> QED
  BY <1>1, <1>2, <1>3, <1>4, <1>5 DEF BufferNext

LEMMA MemPoolLeaves ==
  MempoolNext => Fine /\ fault' \in {"none", "mempool_alloc_chunk"}
<1> SUFFICES ASSUME MempoolNext
             PROVE  Fine /\ fault' \in {"none", "mempool_alloc_chunk"}
  OBVIOUS
<1> USE DEF Returns, Stray, Fine
<1>1. Fine
  BY DEF MempoolNext
<1>2. ASSUME NEW size, NEW chunk, MempoolInit(size, chunk)
      PROVE  fault' \in {"none", "mempool_alloc_chunk"}
  BY <1>1, <1>2 DEF MempoolInit
<1>3. ASSUME NEW chunk, MempoolFreeChunk(chunk)
      PROVE  fault' \in {"none", "mempool_alloc_chunk"}
  BY <1>1, <1>3 DEF MempoolFreeChunk
<1>4. ASSUME MempoolAllocChunk \/ MempoolFreeExtra \/ MempoolDestroy
      PROVE  fault' \in {"none", "mempool_alloc_chunk"}
  BY <1>1, <1>4 DEF MempoolAllocChunk, MempoolFreeExtra, MempoolDestroy
<1> QED
  BY <1>1, <1>2, <1>3, <1>4 DEF MempoolNext

LEMMA ClockLeaves == ClockNext => fault' = fault
BY DEF ClockNext, Returns, ClockInit, ClockInitFails, Time, ClockClear, ClockStart, ClockStop,
   ClockReset, ClockContinue, ClockRead, ClockDestroy

LEMMA OptionsLeaves == OptionsNext => fault' = fault
BY DEF OptionsNext, Returns, OptionsInit, OptionsParse, OptionsParseFails, ParseToken,
   HandleArgument, OptionsParsed, OptionsDestroy

LEMMA LogLeaves == LogNext => fault' = fault
BY DEF LogNext, Returns, LogInit, LogGone, LogSetLevel, LogPrintf, LogAppend, StdioFlush,
   LogClear, LogPrint, LogSetFile, LogDestroy, LogCrash

LEMMA ConfigLeaves == ConfigNext => Fine /\ fault' \in {"none", "free"}
BY DEF ConfigNext, Fine, Returns, Stray, ConfigInit, ParserStep, ParserEnds, ParserSkip,
   ParserSkipLine, ParserReadKey, ParserReadValue, ConfigCall, ConfigParse,
   ConfigParseFails, ConfigSetPath, ConfigInsertHandle, ConfigTakeHandle, ConfigDestroy

LEMMA DiskLeaves == DiskNext => Fine /\ fault' \in {"none", "path_create"}
BY DEF DiskNext, Fine, Returns, Stray, Begin, Gone, ProcessStep, MakeDirectory

-----------------------------------------------------------------------------
(* Paths: _heap_heapify_up() and _heap_heapify_down() go from slot to slot  *)
(* and give each the element of the next one, and the last one that of the *)
(* first                                                                   *)

\* path[d] are the places from d on, up to one from which there is no step
Leads(D, goes, succ, path) ==
    \A d \in D : path[d] = IF d \in goes THEN {d} \cup path[succ[d]] ELSE {d}

Paths(D, goes, succ, path) ==
    path = [d \in D |-> IF d \in goes THEN {d} \cup path[succ[d]] ELSE {d}]

\* "P" are the places of a way that starts at "start" and visits none twice
Way(D, goes, succ, start, P) ==
    /\ P \subseteq D /\ start \in P
    /\ \A d \in P : d \in goes => succ[d] \in P /\ succ[d] # start
    /\ \A d \in P : d # start => \E c \in P : c \in goes /\ succ[c] = d
    /\ \A c, d \in P : c \in goes /\ d \in goes /\ succ[c] = succ[d] => c = d
    /\ \E d \in P : d \notin goes
    /\ \A c, d \in P : c \notin goes /\ d \notin goes => c = d

LEMMA PathsExist ==
  ASSUME NEW D, NEW goes, NEW succ \in [D -> D], NEW measure \in [D -> Nat],
         \A d \in D : d \in goes => measure[succ[d]] < measure[d]
  PROVE  \E path : Paths(D, goes, succ, path)
<1> DEFINE X == SUBSET D
           stops == D \ goes
           ends == [d \in D |-> {d}]
           makes == [d \in D |-> [x \in X |-> {d} \cup x]]
<1>1. Measured(D, X, stops, ends, succ, makes, measure)
  BY DEF Measured
<1>2. PICK g : Recurses(D, X, stops, ends, succ, makes, g)
  <2> HIDE DEF X, stops, ends, makes
  <2> QED
    BY <1>1, MeasuredRecursion
<1>3. g \in [D -> X] /\ \A d \in D :
         g[d] = IF d \in stops THEN ends[d] ELSE makes[d][g[succ[d]]]
  BY <1>2 DEF Recurses
<1>4. ASSUME NEW d \in D PROVE g[d] = IF d \in goes THEN {d} \cup g[succ[d]] ELSE {d}
  <2>1. g[succ[d]] \in X
    BY <1>3
  <2> QED
    BY <1>3, <2>1
<1>5. Paths(D, goes, succ, g)
  <2> HIDE DEF X, stops, ends, makes
  <2> QED
    BY <1>3, <1>4 DEF Paths
<1> QED
  BY <1>5

LEMMA PathsAreWays ==
  ASSUME NEW D, NEW goes, NEW succ \in [D -> D], NEW measure \in [D -> Nat],
         \A d \in D : d \in goes => measure[succ[d]] < measure[d],
         NEW path, Leads(D, goes, succ, path), NEW start \in D
  PROVE  Way(D, goes, succ, start, path[start])
<1> DEFINE Good(d) == /\ Way(D, goes, succ, d, path[d])
                      /\ \A c \in path[d] : measure[c] <= measure[d]
           S == {k \in Nat : \A d \in D : measure[d] <= k => Good(d)}
<1>1. ASSUME NEW d \in D, d \notin goes PROVE Good(d)
  <2>1. path[d] = {d}
    BY <1>1 DEF Leads
  <2> QED
    BY <1>1, <2>1 DEF Way
<1>2. ASSUME NEW d \in D, d \in goes, Good(succ[d]) PROVE Good(d)
  <2> DEFINE P == path[succ[d]]
             e == succ[d]
  <2>1. path[d] = {d} \cup P /\ e \in D /\ measure[e] < measure[d]
    BY <1>2 DEF Leads
  <2>2. Way(D, goes, succ, e, P) /\ \A c \in P : measure[c] <= measure[e]
    BY <1>2
  <2> HIDE DEF P, e
  <2>3. P \subseteq D /\ e \in P
    BY <2>2 DEF Way
  <2>4. \A c \in P : measure[c] < measure[d]
    BY <2>1, <2>2, <2>3
  <2>5. d \notin P /\ succ[d] = e
    BY <2>4 DEF e
  <2>6. \A c \in {d} \cup P : measure[c] <= measure[d]
    BY <2>3, <2>4
  <2>7. Way(D, goes, succ, d, {d} \cup P)
    BY <1>2, <2>2, <2>5 DEF Way
  <2> QED
    BY <2>1, <2>6, <2>7
<1>3. 0 \in S
  <2> SUFFICES ASSUME NEW d \in D, measure[d] <= 0 PROVE Good(d)
    OBVIOUS
  <2>1. d \notin goes
    OBVIOUS
  <2> QED
    BY <1>1, <2>1
<1>4. ASSUME NEW k \in Nat, k \in S PROVE k + 1 \in S
  <2> SUFFICES ASSUME NEW d \in D, measure[d] <= k + 1 PROVE Good(d)
    OBVIOUS
  <2>1. d \in goes => Good(succ[d])
    <3> HIDE DEF Good
    <3> QED
      BY <1>4
  <2> QED
    BY <1>1, <1>2, <2>1
<1> HIDE DEF S
<1>5. measure[start] \in S
  BY <1>3, <1>4, NumberInduction
<1> QED
  BY <1>5 DEF S

\* The elements along a way are moved, the first one to the last place ...
Rotates(D, goes, succ, start, P, data, new) ==
    \A d \in D : new[d] = IF d \notin P THEN data[d]
                          ELSE IF d \in goes THEN data[succ[d]] ELSE data[start]

Elements(D, data) == {data[d] : d \in D}

EachOnce(D, data) == \A c, d \in D : data[c] = data[d] => c = d

\* ... so that none is lost and none doubled.
LEMMA Rotation ==
  ASSUME NEW D, NEW goes, NEW succ, NEW start, NEW P, Way(D, goes, succ, start, P),
         NEW data, NEW new, Rotates(D, goes, succ, start, P, data, new)
  PROVE  /\ Elements(D, new) = Elements(D, data)
         /\ EachOnce(D, data) => EachOnce(D, new)
<1> DEFINE from == [d \in D |-> IF d \notin P THEN d ELSE IF d \in goes THEN succ[d] ELSE start]
<1>1. \A d \in D : new[d] = data[from[d]] /\ from[d] \in D
  BY DEF Way, Rotates
<1>2. \A c, d \in D : from[c] = from[d] => c = d
  BY DEF Way
<1>3. \A d \in D : \E c \in D : from[c] = d
  <2> SUFFICES ASSUME NEW d \in D PROVE \E c \in D : from[c] = d
    OBVIOUS
  <2>1. CASE d \notin P
    BY <2>1
  <2>2. CASE d = start
    <3>1. PICK c \in P : c \notin goes
      BY DEF Way
    <3> QED
      BY <2>2, <3>1 DEF Way
  <2>3. CASE d \in P /\ d # start
    <3>1. PICK c \in P : c \in goes /\ succ[c] = d
      BY <2>3 DEF Way
    <3> QED
      BY <3>1 DEF Way
  <2> QED
    BY <2>1, <2>2, <2>3
<1> HIDE DEF from
<1> QED
  BY <1>1, <1>2, <1>3 DEF Elements, EachOnce

-----------------------------------------------------------------------------
(* Heap: the order *)

\* "n" elements, each of them once, none of a greater rank than its parent
Heaped(data, n) ==
    /\ data \in [0..n - 1 -> Data]
    /\ EachOnce(0..n - 1, data)
    /\ \A i \in 1..n - 1 : Rank[data[i]] <= Rank[data[Parent(i)]]

LEMMA Parents ==
  ASSUME NEW i \in Nat, i > 0
  PROVE  /\ Parent(i) \in Nat /\ Parent(i) < i
         /\ i = 2 * Parent(i) + 1 \/ i = 2 * Parent(i) + 2
BY DEF Parent

\* _heap_heapify_up() moves the elements on a way from the last slot up through
\* parents that are not greater than the last element.
LEMMA UpIsWay ==
  ASSUME NEW n \in Nat, NEW data \in [0..n -> Data]
  PROVE  \E P, goes, succ :
            /\ goes = {i \in 0..n : i > 0 /\ Rank[data[Parent(i)]] <= Rank[data[n]]}
            /\ succ = [i \in 0..n |-> IF i \in goes THEN Parent(i) ELSE i]
            /\ Way(0..n, goes, succ, n, P)
            /\ HeapifyUp(data, n) \in [0..n -> Data]
            /\ Rotates(0..n, goes, succ, n, P, data, HeapifyUp(data, n))
<1> DEFINE D == 0..n
           passes(i) == i > 0 /\ Rank[data[Parent(i)]] <= Rank[data[n]]
           goes == {i \in D : passes(i)}
           succ == [i \in D |-> IF i \in goes THEN Parent(i) ELSE i]
           measure == [i \in D |-> i]
           Ways(path) == path = [i \in D |-> IF passes(i) THEN {i} \cup path[Parent(i)] ELSE {i}]
           path == CHOOSE p : Ways(p)
           up == [i \in D |-> IF i \notin path[n] THEN data[i]
                              ELSE IF passes(i) THEN data[Parent(i)] ELSE data[n]]
<1>1. DOMAIN data = D
  OBVIOUS
<1>2. HeapifyUp(data, n) = up
  BY <1>1 DEF HeapifyUp
<1>3. \A i \in D : i \in goes => Parent(i) \in D /\ Parent(i) < i
  BY Parents
<1>4. succ \in [D -> D] /\ measure \in [D -> Nat]
      /\ \A d \in D : d \in goes => measure[succ[d]] < measure[d]
  BY <1>3
<1>5. \E p : Paths(D, goes, succ, p)
  <2> HIDE DEF D, succ, goes, measure
  <2> QED
    BY <1>4, PathsExist
<1>6. \E p : Ways(p)
  <2>1. PICK p : Paths(D, goes, succ, p)
    BY <1>5
  <2>2. \A d \in D : p[d] = IF passes(d) THEN {d} \cup p[Parent(d)] ELSE {d}
    BY <2>1 DEF Paths
  <2>3. Ways(p)
    BY <2>1, <2>2 DEF Paths
  <2> HIDE DEF Ways
  <2> QED
    BY <2>3
<1>7. Ways(path)
  <2> HIDE DEF Ways
  <2> QED
    BY <1>6
<1>8. Leads(D, goes, succ, path)
  <2> HIDE DEF path
  <2> QED
    BY <1>7 DEF Leads
<1>9. Way(D, goes, succ, n, path[n])
  <2>1. n \in D
    OBVIOUS
  <2> HIDE DEF D, succ, goes, measure, path
  <2> QED
    BY <1>4, <1>8, <2>1, PathsAreWays
<1> HIDE DEF path
<1>10. up \in [0..n -> Data]
  BY <1>3
<1>11. Rotates(0..n, goes, succ, n, path[n], data, up)
  BY DEF Rotates
<1> HIDE DEF up, succ
<1>12. succ = [i \in 0..n |-> IF i \in goes THEN Parent(i) ELSE i]
  BY DEF succ
<1> QED
  BY <1>2, <1>9, <1>10, <1>11, <1>12

\* What it makes of a heap and one more element is a heap of all of them.
LEMMA UpKeeps ==
  ASSUME NEW n \in Nat, NEW data \in [0..n -> Data],
         EachOnce(0..n, data),
         \A i \in 1..n - 1 : Rank[data[i]] <= Rank[data[Parent(i)]]
  PROVE  /\ Heaped(HeapifyUp(data, n), n + 1)
         /\ Elements(0..n, HeapifyUp(data, n)) = Elements(0..n, data)
<1> DEFINE new == HeapifyUp(data, n)
           x == data[n]
<1>1. PICK P, goes, succ :
            /\ goes = {i \in 0..n : i > 0 /\ Rank[data[Parent(i)]] <= Rank[data[n]]}
            /\ succ = [i \in 0..n |-> IF i \in goes THEN Parent(i) ELSE i]
            /\ Way(0..n, goes, succ, n, P)
            /\ new \in [0..n -> Data]
            /\ Rotates(0..n, goes, succ, n, P, data, new)
  BY UpIsWay
<1> HIDE DEF new
<1>2. Elements(0..n, new) = Elements(0..n, data) /\ EachOnce(0..n, new)
  BY <1>1, Rotation
<1>3. \A i \in 0..n : data[i] \in Data /\ Rank[data[i]] \in Int
  BY DataAssumption
<1>4. ASSUME NEW i \in 1..n PROVE Rank[new[i]] <= Rank[new[Parent(i)]]
  <2> DEFINE p == Parent(i)
  <2>1. p \in 0..n /\ p < i /\ i \in 0..n
    BY Parents
  <2>2. p # 0 => Rank[data[p]] <= Rank[data[Parent(p)]] /\ Parent(p) \in 0..n
    BY <2>1, Parents
  <2>3. i # n => Rank[data[i]] <= Rank[data[p]]
    OBVIOUS
  <2>4. /\ i \in goes <=> Rank[data[p]] <= Rank[x]
        /\ p \in goes <=> p > 0 /\ Rank[data[Parent(p)]] <= Rank[x]
        /\ i \in goes => succ[i] = p
        /\ p \in goes => succ[p] = Parent(p)
    BY <1>1, <2>1
  <2>5. p \in P /\ p # n => Rank[data[p]] <= Rank[x]
    <3> SUFFICES ASSUME p \in P, p # n PROVE Rank[data[p]] <= Rank[x]
      OBVIOUS
    <3>1. PICK c \in P : c \in goes /\ succ[c] = p
      BY <1>1 DEF Way
    <3> QED
      BY <1>1, <3>1
  <2>6. CASE i \in P /\ i \in goes
    <3>1. p \in P /\ new[i] = data[p]
      BY <1>1, <2>1, <2>4, <2>6 DEF Way, Rotates
    <3>2. new[p] = IF p \in goes THEN data[Parent(p)] ELSE x
      BY <1>1, <2>1, <2>4, <3>1 DEF Rotates
    <3> HIDE DEF p, x
    <3> QED
      BY <1>3, <2>1, <2>2, <2>4, <2>6, <3>1, <3>2 DEF p
  <2>7. CASE i \in P /\ i \notin goes
    <3>1. p \notin P
      <4> SUFFICES ASSUME p \in P PROVE FALSE
        OBVIOUS
      <4>1. \A c \in P : c \notin goes => c = i
        BY <1>1, <2>7 DEF Way
      <4>2. p \in goes
        BY <2>1, <4>1
      <4>3. p > 0 /\ Rank[data[Parent(p)]] <= Rank[x]
        BY <2>4, <4>2
      <4> HIDE DEF p, x
      <4> QED
        BY <1>3, <2>1, <2>2, <2>4, <2>5, <2>7, <4>3 DEF x
    <3>2. new[i] = x /\ new[p] = data[p]
      BY <1>1, <2>1, <2>7, <3>1 DEF Rotates
    <3> HIDE DEF p
    <3> QED
      BY <1>3, <2>1, <2>4, <2>7, <3>2 DEF p
  <2>8. CASE i \notin P
    <3>1. new[i] = data[i] /\ i # n
      BY <1>1, <2>1, <2>8 DEF Way, Rotates
    <3>2. new[p] = IF p \notin P THEN data[p] ELSE IF p \in goes THEN data[Parent(p)] ELSE x
      BY <1>1, <2>1, <2>4 DEF Rotates
    <3> HIDE DEF p
    <3> QED
      BY <1>3, <2>1, <2>2, <2>3, <2>4, <2>5, <3>1, <3>2 DEF p
  <2> QED
    BY <2>6, <2>7, <2>8
<1>5. (n + 1) - 1 = n
  OBVIOUS
<1>6. Heaped(new, n + 1)
  BY <1>1, <1>2, <1>4, <1>5 DEF Heaped
<1> QED
  BY <1>2, <1>6 DEF new

\* "c" is the slot of the greatest of three: an element of rank x at slot i, and
\* the two children of that slot
IsGreatest(data, n, i, x, c) ==
    /\ c \in 0..n - 1
    /\ \/ /\ c = i
          /\ \A k \in 1..n - 1 : Parent(k) = i => Rank[data[k]] <= x
       \/ /\ c > i /\ Parent(c) = i
          /\ Rank[data[c]] > x
          /\ \A k \in 1..n - 1 : Parent(k) = i => Rank[data[k]] <= Rank[data[c]]

LEMMA ChildIsGreatest ==
  ASSUME NEW n \in Nat, NEW data \in [0..n - 1 -> Data], NEW i \in 0..n - 1, NEW x \in Int
  PROVE  IsGreatest(data, n, i, x, Child(data, i, x))
<1> DEFINE l == 2 * i + 1
           r == 2 * i + 2
           Beats(c, y) == c \in 0..n - 1 /\ Rank[data[c]] > y
           c == Child(data, i, x)
<1>1. DOMAIN data = 0..n - 1
  OBVIOUS
<1>2. c = IF Beats(r, IF Beats(l, x) THEN Rank[data[l]] ELSE x) THEN r
          ELSE IF Beats(l, x) THEN l ELSE i
  BY <1>1 DEF Child
<1>3. \A k \in 0..n - 1 : Rank[data[k]] \in Int
  BY DataAssumption
<1>4. \A k \in 1..n - 1 : Parent(k) = i => k = l \/ k = r
  <2> SUFFICES ASSUME NEW k \in 1..n - 1, Parent(k) = i PROVE k = l \/ k = r
    OBVIOUS
  <2>1. k \in Nat /\ k > 0
    OBVIOUS
  <2> QED
    BY <2>1, Parents
<1>5. Parent(l) = i /\ Parent(r) = i /\ l > i /\ r > i
  BY DEF Parent
<1> HIDE DEF l, r, c
<1>6. CASE Beats(r, IF Beats(l, x) THEN Rank[data[l]] ELSE x)
  BY <1>2, <1>3, <1>4, <1>5, <1>6 DEF c, IsGreatest
<1>7. CASE ~Beats(r, IF Beats(l, x) THEN Rank[data[l]] ELSE x) /\ Beats(l, x)
  BY <1>2, <1>3, <1>4, <1>5, <1>7 DEF c, IsGreatest
<1>8. CASE ~Beats(r, IF Beats(l, x) THEN Rank[data[l]] ELSE x) /\ ~Beats(l, x)
  BY <1>2, <1>3, <1>4, <1>5, <1>8 DEF c, IsGreatest
<1> QED
  BY <1>6, <1>7, <1>8

\* _heap_heapify_down() moves the elements on a way from the first slot down
\* through the greatest children.
LEMMA DownIsWay ==
  ASSUME NEW n \in Nat, n > 0, NEW data \in [0..n - 1 -> Data]
  PROVE  \E P, goes, succ :
            /\ succ = [i \in 0..n - 1 |-> Child(data, i, Rank[data[0]])]
            /\ goes = {i \in 0..n - 1 : succ[i] # i}
            /\ Way(0..n - 1, goes, succ, 0, P)
            /\ HeapifyDown(data) \in [0..n - 1 -> Data]
            /\ Rotates(0..n - 1, goes, succ, 0, P, data, HeapifyDown(data))
<1> DEFINE D == 0..n - 1
           child(i) == Child(data, i, Rank[data[0]])
           succ == [i \in D |-> child(i)]
           goes == {i \in D : succ[i] # i}
           measure == [i \in D |-> n - i]
           Ways(path) == path = [i \in D |-> IF child(i) = i THEN {i}
                                             ELSE {i} \cup path[child(i)]]
           path == CHOOSE p : Ways(p)
           down == [i \in D |-> IF i \notin path[0] THEN data[i]
                                ELSE IF child(i) = i THEN data[0] ELSE data[child(i)]]
<1>1. DOMAIN data = D /\ 0 \in D
  OBVIOUS
<1>2. HeapifyDown(data) = down
  BY <1>1 DEF HeapifyDown
<1>3. Rank[data[0]] \in Int
  BY DataAssumption
<1>4. \A i \in D : child(i) \in D /\ (child(i) # i => child(i) > i)
  BY <1>3, ChildIsGreatest DEF IsGreatest
<1> HIDE DEF child
<1>5. succ \in [D -> D] /\ measure \in [D -> Nat]
      /\ \A d \in D : d \in goes => measure[succ[d]] < measure[d]
  <2>1. \A d \in D : d \in Nat /\ d < n
    OBVIOUS
  <2>2. succ \in [D -> D] /\ \A d \in D : succ[d] = child(d)
    BY <1>4
  <2>3. measure \in [D -> Nat] /\ \A d \in D : measure[d] = n - d
    BY <2>1
  <2> HIDE DEF D, succ, measure
  <2> QED
    BY <1>4, <2>1, <2>2, <2>3
<1>6. \E p : Paths(D, goes, succ, p)
  <2> HIDE DEF D, succ, goes, measure
  <2> QED
    BY <1>5, PathsExist
<1>7. \E p : Ways(p)
  <2>1. PICK p : Paths(D, goes, succ, p)
    BY <1>6
  <2>2. \A d \in D : p[d] = IF child(d) = d THEN {d} ELSE {d} \cup p[child(d)]
    BY <2>1 DEF Paths
  <2>3. Ways(p)
    BY <2>1, <2>2 DEF Paths
  <2> HIDE DEF Ways
  <2> QED
    BY <2>3
<1>8. Ways(path)
  <2> HIDE DEF Ways
  <2> QED
    BY <1>7
<1>9. Leads(D, goes, succ, path)
  <2> HIDE DEF path
  <2> QED
    BY <1>8 DEF Leads
<1>10. Way(D, goes, succ, 0, path[0])
  <2> HIDE DEF D, succ, goes, measure, path
  <2> QED
    BY <1>1, <1>5, <1>9, PathsAreWays
<1> HIDE DEF path
<1>11. down \in [0..n - 1 -> Data]
  BY <1>1, <1>4
<1>12. Rotates(0..n - 1, goes, succ, 0, path[0], data, down)
  BY DEF Rotates
<1> HIDE DEF down, succ
<1>13. succ = [i \in 0..n - 1 |-> Child(data, i, Rank[data[0]])]
  BY DEF succ, child
<1> QED
  BY <1>2, <1>10, <1>11, <1>12, <1>13

\* What it makes of a heap whose first element was replaced is a heap of the
\* same elements.
LEMMA DownKeeps ==
  ASSUME NEW n \in Nat, NEW data \in [0..n - 1 -> Data], EachOnce(0..n - 1, data),
         \A i \in 1..n - 1 : Parent(i) # 0 => Rank[data[i]] <= Rank[data[Parent(i)]]
  PROVE  /\ Heaped(HeapifyDown(data), n)
         /\ Elements(0..n - 1, HeapifyDown(data)) = Elements(0..n - 1, data)
<1>1. CASE n = 0
  <2>1. 0..n - 1 = {} /\ 1..n - 1 = {} /\ DOMAIN data = {}
    BY <1>1
  <2>2. HeapifyDown(data) \in [{} -> Data]
    BY <2>1 DEF HeapifyDown
  <2> QED
    BY <2>1, <2>2 DEF Heaped, EachOnce, Elements
<1>2. CASE n > 0
  <2> DEFINE new == HeapifyDown(data)
             x == data[0]
  <2>1. PICK P, goes, succ :
            /\ succ = [i \in 0..n - 1 |-> Child(data, i, Rank[data[0]])]
            /\ goes = {i \in 0..n - 1 : succ[i] # i}
            /\ Way(0..n - 1, goes, succ, 0, P)
            /\ new \in [0..n - 1 -> Data]
            /\ Rotates(0..n - 1, goes, succ, 0, P, data, new)
    BY <1>2, DownIsWay
  <2> HIDE DEF new
  <2>2. Elements(0..n - 1, new) = Elements(0..n - 1, data) /\ EachOnce(0..n - 1, new)
    BY <2>1, Rotation
  <2>3. 0 \in 0..n - 1 /\ \A i \in 0..n - 1 : Rank[data[i]] \in Int
    BY <1>2, DataAssumption
  <2>4. ASSUME NEW i \in 0..n - 1
        PROVE  IsGreatest(data, n, i, Rank[x], succ[i]) /\ (i \in goes <=> succ[i] # i)
    <3>1. succ[i] = Child(data, i, Rank[x]) /\ Rank[x] \in Int
          /\ (i \in goes <=> succ[i] # i)
      BY <2>1, <2>3
    <3> HIDE DEF x
    <3> QED
      BY <3>1, ChildIsGreatest
  <2>5. ASSUME NEW i \in 1..n - 1 PROVE Rank[new[i]] <= Rank[new[Parent(i)]]
    <3> DEFINE p == Parent(i)
    <3>1. p \in 0..n - 1 /\ p < i /\ i \in 0..n - 1
      BY Parents
    <3>2. i \in P => p \in P /\ p \in goes /\ succ[p] = i
      <4> SUFFICES ASSUME i \in P PROVE p \in P /\ p \in goes /\ succ[p] = i
        OBVIOUS
      <4>1. PICK c \in P : c \in goes /\ succ[c] = i
        BY <2>1, <3>1 DEF Way
      <4>2. c \in 0..n - 1 /\ Parent(succ[c]) = c
        BY <2>1, <2>4, <4>1 DEF Way, IsGreatest
      <4> QED
        BY <4>1, <4>2
    <3>3. p # 0 => Rank[data[i]] <= Rank[data[p]]
      OBVIOUS
    <3>4. new[i] = IF i \notin P THEN data[i] ELSE IF i \in goes THEN data[succ[i]] ELSE x
      BY <2>1, <3>1 DEF Rotates
    <3>5. new[p] = IF p \notin P THEN data[p] ELSE IF p \in goes THEN data[succ[p]] ELSE x
      BY <2>1, <3>1 DEF Rotates
    <3>6. p \notin P => p # 0
      BY <2>1 DEF Way
    <3>7. p \in P /\ p \in goes => succ[p] \in P
      BY <2>1 DEF Way
    <3>8. i \in goes => succ[i] \in 1..n - 1 /\ Parent(succ[i]) = i
                        /\ Rank[data[succ[i]]] <= Rank[data[i]]
      <4> SUFFICES ASSUME i \in goes
                   PROVE  succ[i] \in 1..n - 1 /\ Parent(succ[i]) = i
                          /\ Rank[data[succ[i]]] <= Rank[data[i]]
        OBVIOUS
      <4>1. succ[i] \in 1..n - 1 /\ Parent(succ[i]) = i
        BY <2>4, <3>1 DEF IsGreatest
      <4>2. Parent(succ[i]) # 0
        BY <4>1
      <4> QED
        BY <4>1, <4>2
    <3> HIDE DEF p, x
    <3>9. CASE p \notin P
      BY <3>2, <3>3, <3>4, <3>5, <3>6, <3>9 DEF p
    <3>10. CASE p \in P /\ p \notin goes
      <4>1. new[i] = data[i] /\ new[p] = x
        BY <3>2, <3>4, <3>5, <3>10
      <4> QED
        BY <2>4, <3>1, <3>10, <4>1 DEF p, IsGreatest
    <3>11. CASE p \in P /\ p \in goes
      <4>1. new[p] = data[succ[p]] /\ succ[p] \in 0..n - 1
            /\ Rank[data[succ[p]]] > Rank[x] /\ Rank[data[i]] <= Rank[data[succ[p]]]
        BY <2>4, <3>1, <3>5, <3>11 DEF p, IsGreatest
      <4>2. Rank[x] \in Int /\ Rank[data[i]] \in Int /\ Rank[data[succ[p]]] \in Int
            /\ (i \in goes => Rank[data[succ[i]]] \in Int)
        BY <2>3, <3>1, <3>8, <4>1 DEF x
      <4>3. Rank[new[i]] <= Rank[data[succ[p]]]
        BY <3>4, <3>8, <4>1, <4>2
      <4> QED
        BY <4>1, <4>3 DEF p
    <3> QED
      BY <3>9, <3>10, <3>11
  <2>6. Heaped(new, n)
    BY <2>1, <2>2, <2>5 DEF Heaped
  <2> QED
    BY <2>2, <2>6 DEF new
<1> QED
  BY <1>1, <1>2

-----------------------------------------------------------------------------
(* Heap: the calls *)

HeapTypes == [data : UNION {[0..n - 1 -> Data] : n \in Nat}, size : Nat,
              deletes : BOOLEAN, capacity : Nat]

\* The capacity is a power of two, and the array holds a heap, unless a
\* heap_clear() with a data_delete has left the size below zero.
HeapInv ==
    heap # None =>
        /\ heap \in HeapTypes
        /\ IsPower(heap.capacity)
        /\ HeapDefault <= heap.capacity /\ heap.capacity <= TopBit
        /\ \/ heap.size = UIntMax /\ heap.data = <<>>
           \/ heap.size <= heap.capacity /\ Heaped(heap.data, heap.size)

LEMMA EmptyHeap == <<>> \in [0..0 - 1 -> Data] /\ Heaped(<<>>, 0)
<1>1. 0..0 - 1 = {} /\ 1..0 - 1 = {}
  OBVIOUS
<1>2. <<>> \in [{} -> Data]
  OBVIOUS
<1> QED
  BY <1>1, <1>2 DEF Heaped, EachOnce

\* NULL is no heap.
HeapsAreObjects == None \notin HeapTypes

\* what the callers see of a heap
LEMMA Items ==
  ASSUME HeapInv, heap # None
  PROVE  /\ heap.size = UIntMax => HeapItems = {}
         /\ heap.size # UIntMax => HeapItems = Elements(0..heap.size - 1, heap.data)
<1>1. CASE heap.size = UIntMax
  <2>1. heap.data = <<>>
    BY <1>1, Limits DEF HeapInv, HeapTypes
  <2>2. DOMAIN heap.data = {}
    BY <2>1
  <2> QED
    BY <1>1, <2>2 DEF HeapItems
<1>2. CASE heap.size # UIntMax
  <2>1. heap.data \in [0..heap.size - 1 -> Data]
    BY <1>2 DEF HeapInv, Heaped
  <2>2. DOMAIN heap.data = 0..heap.size - 1
    BY <2>1
  <2> QED
    BY <1>2, <2>2 DEF HeapItems, Elements
<1> QED
  BY <1>1, <1>2

LEMMA InsertWithKeeps ==
  ASSUME HeapInv, heap # None, NEW d \in Data \ HeapItems, Fine,
         NEW c \in Nat, IsPower(c), HeapDefault <= c, c <= TopBit,
         heap.size <= heap.capacity /\ heap.size >= c => heap.size = TopBit,
         InsertWith(d, c)
  PROVE  HeapInv' /\ HeapStaysInside' /\ (HeapsAreObjects /\ Fine' => PQ!Next)
<1> USE DEF Stray, Returns, Fine
<1>1. CASE heap.size < c
  <2> DEFINE n == heap.size
             more == [i \in 0..n |-> IF i = n THEN d ELSE heap.data[i]]
             new == HeapifyUp(more, n)
  <2>1. n \in Nat /\ n # UIntMax /\ n + 1 # UIntMax
    BY <1>1, Limits DEF HeapInv, HeapTypes
  <2>2. Heaped(heap.data, n)
    BY <2>1 DEF HeapInv
  <2>3. HeapItems = Elements(0..n - 1, heap.data)
    BY <2>1, Items
  <2>4. heap' = [heap EXCEPT !.size = n + 1, !.capacity = c, !.data = new]
        /\ returned' = d /\ fault' = fault
    BY <1>1 DEF InsertWith
  <2>5. more \in [0..n -> Data] /\ EachOnce(0..n, more)
        /\ Elements(0..n, more) = HeapItems \cup {d}
    <3>1. \A i \in 0..n : i # n => i \in 0..n - 1 /\ heap.data[i] \in Data
                                   /\ heap.data[i] \in HeapItems
      BY <2>1, <2>2, <2>3 DEF Heaped, Elements
    <3>2. more \in [0..n -> Data]
      BY <3>1
    <3>3. EachOnce(0..n, more)
      BY <2>2, <3>1 DEF EachOnce, Heaped
    <3>4. Elements(0..n, more) = HeapItems \cup {d}
      <4>1. \A i \in 0..n - 1 : i \in 0..n /\ i # n
        BY <2>1
      <4>2. n \in 0..n
        BY <2>1
      <4> QED
        BY <2>3, <3>1, <4>1, <4>2 DEF Elements
    <3> QED
      BY <3>2, <3>3, <3>4
  <2>6. \A i \in 1..n - 1 : Rank[more[i]] <= Rank[more[Parent(i)]]
    <3> SUFFICES ASSUME NEW i \in 1..n - 1 PROVE Rank[more[i]] <= Rank[more[Parent(i)]]
      OBVIOUS
    <3>1. Parent(i) \in Nat /\ Parent(i) < i
      BY <2>1, Parents
    <3>2. i \in 0..n /\ i # n /\ Parent(i) \in 0..n /\ Parent(i) # n
      BY <2>1, <3>1
    <3> QED
      BY <2>2, <3>2 DEF Heaped
  <2> HIDE DEF more
  <2>7. Heaped(new, n + 1) /\ Elements(0..n, new) = Elements(0..n, more)
    BY <2>1, <2>5, <2>6, UpKeeps
  <2> HIDE DEF new
  <2>8. new \in [0..(n + 1) - 1 -> Data] /\ (n + 1) - 1 = n /\ n + 1 \in Nat
    BY <2>1, <2>7 DEF Heaped
  <2>9. heap' \in HeapTypes /\ heap'.size = n + 1 /\ heap'.capacity = c /\ heap'.data = new
    BY <2>4, <2>8 DEF HeapInv, HeapTypes
  <2>10. HeapInv'
    BY <1>1, <2>1, <2>7, <2>9 DEF HeapInv
  <2>11. HeapItems' = HeapItems \cup {d} \/ heap' = None
    <3>1. DOMAIN new = 0..n
      BY <2>8
    <3> QED
      BY <2>5, <2>7, <2>9, <3>1 DEF HeapItems, Elements
  <2>12. fault' = "none"
    BY <2>4
  <2>13. HeapStaysInside'
    BY <2>12 DEF HeapStaysInside
  <2>14. HeapsAreObjects => heap' # None
    BY <2>9 DEF HeapsAreObjects
  <2> QED
    BY <2>4, <2>10, <2>11, <2>13, <2>14 DEF PQ!Next, PQ!Insert
<1>2. CASE ~(heap.size < c)
  <2>1. fault' = "heap_insert" /\ heap' = heap
    BY <1>2 DEF InsertWith
  <2>2. heap.size = UIntMax \/ heap.size = TopBit
    BY <1>2 DEF HeapInv, HeapTypes
  <2> QED
    BY <2>1, <2>2 DEF HeapInv, HeapStaysInside
<1> QED
  BY <1>1, <1>2

\* Full or not, the array that heap_insert() goes on with is of a nice size.
LEMMA InsertKeeps ==
  ASSUME HeapInv, heap # None, NEW d \in Data \ HeapItems, Fine, HeapInsert(d)
  PROVE  HeapInv' /\ HeapStaysInside' /\ (HeapsAreObjects /\ Fine' => PQ!Next)
<1> DEFINE cap == heap.capacity
           c == ResizedTo(Wrap(2 * cap))
<1>1. /\ cap \in Nat /\ IsPower(cap) /\ HeapDefault <= cap /\ cap <= TopBit
      /\ heap.size \in Nat /\ HeapDefault \in Nat /\ IsPower(HeapDefault)
  BY HeapAssumption DEF HeapInv, HeapTypes
<1>2. CASE ~Full /\ InsertWith(d, cap)
  <2>1. ~(heap.size <= heap.capacity /\ heap.size >= cap)
    BY <1>1, <1>2 DEF Full
  <2> HIDE DEF cap
  <2> QED
    BY <1>1, <1>2, <2>1, InsertWithKeeps
<1>3. CASE Full /\ InsertWith(d, c)
  <2>1. /\ c \in Nat /\ IsPower(c) /\ HeapDefault <= c /\ c <= TopBit
        /\ c = 2 * cap \/ cap = TopBit
    <3>1. CASE cap < TopBit /\ Wrap(2 * cap) = 2 * cap /\ IsPower(2 * cap) /\ 2 * cap <= TopBit
      BY <1>1, <3>1 DEF ResizedTo
    <3>2. CASE cap = TopBit /\ Wrap(2 * cap) = 0
      BY <1>1, <3>2, HeapAssumption DEF ResizedTo
    <3> QED
      BY <1>1, <3>1, <3>2, Doubles
  <2>2. heap.size <= heap.capacity /\ heap.size >= c => heap.size = TopBit
    <3>1. cap > 0
      BY <1>1, Limits, PowerOfTwo DEF IsPower
    <3> QED
      BY <1>1, <1>3, <2>1, <3>1 DEF Full
  <2> HIDE DEF c, cap
  <2> QED
    BY <1>3, <2>1, <2>2, InsertWithKeeps
<1>4. CASE Full /\ Returns(Failed) /\ UNCHANGED heap
  <2>1. heap' = heap /\ returned' = Failed /\ fault' = "none"
    BY <1>4 DEF Returns, Fine
  <2>2. HeapInv'
    BY <2>1 DEF HeapInv
  <2>3. HeapItems' = HeapItems
    BY <2>1 DEF HeapItems
  <2> QED
    BY <2>1, <2>2, <2>3, DataAssumption DEF HeapStaysInside, PQ!Next, PQ!Keep
<1> QED
  BY <1>2, <1>3, <1>4 DEF HeapInsert

\* The first element of a heap is the greatest one.
LEMMA TopIsGreatest ==
  ASSUME NEW n \in Nat, NEW data, Heaped(data, n), NEW i \in 0..n - 1
  PROVE  Rank[data[i]] <= Rank[data[0]]
<1> DEFINE S == {m \in Nat : \A j \in 0..m : j <= n - 1 => Rank[data[j]] <= Rank[data[0]]}
<1>1. \A j \in 0..n - 1 : data[j] \in Data /\ Rank[data[j]] \in Int
  BY DataAssumption DEF Heaped
<1>2. 0 \in S
  BY <1>1
<1>3. ASSUME NEW m \in Nat, m \in S PROVE m + 1 \in S
  <2> SUFFICES ASSUME NEW j \in 0..m + 1, j <= n - 1 PROVE Rank[data[j]] <= Rank[data[0]]
    OBVIOUS
  <2>1. CASE j \in 0..m
    BY <1>3, <2>1
  <2>2. CASE j = m + 1
    <3>1. Parent(j) \in Nat /\ Parent(j) < j
      BY <2>2, Parents
    <3>2. Parent(j) \in 0..m /\ Parent(j) <= n - 1 /\ j \in 1..n - 1
      BY <2>2, <3>1
    <3>3. Rank[data[Parent(j)]] <= Rank[data[0]]
      BY <1>3, <3>2
    <3>4. Rank[data[j]] <= Rank[data[Parent(j)]]
      BY <3>2 DEF Heaped
    <3>5. Rank[data[j]] \in Int /\ Rank[data[Parent(j)]] \in Int /\ Rank[data[0]] \in Int
      <4>1. j \in 0..n - 1 /\ Parent(j) \in 0..n - 1 /\ 0 \in 0..n - 1
        BY <3>2
      <4> QED
        BY <1>1, <4>1
    <3> QED
      BY <3>3, <3>4, <3>5
  <2> QED
    BY <2>1, <2>2
<1>4. i \in S
  <2> HIDE DEF S
  <2> QED
    BY <1>2, <1>3, NumberInduction
<1> QED
  BY <1>4

LEMMA TakeKeeps ==
  ASSUME HeapInv, heap # None, Fine, HeapTake
  PROVE  HeapInv' /\ HeapStaysInside' /\ (HeapsAreObjects /\ Fine' => PQ!Next)
<1> USE DEF Stray, Returns, Fine
<1> DEFINE size == heap.size - 1
           half == heap.capacity \div 2
           data == heap.data
           rest == [i \in 0..size - 1 |-> heap.data[IF i = 0 THEN size ELSE i]]
           new == HeapifyDown(rest)
<1>1. /\ heap.capacity \in Nat /\ IsPower(heap.capacity) /\ heap.size \in Nat /\ heap.size # 0
      /\ HeapDefault <= heap.capacity /\ heap.capacity <= TopBit
      /\ HeapDefault \in Nat /\ IsPower(HeapDefault) /\ HeapDefault <= TopBit
  <2>1. ~HeapEmpty
    BY Zenon DEF HeapTake
  <2> QED
    BY <2>1, HeapAssumption DEF HeapInv, HeapTypes, HeapEmpty
<1>2. CASE size < heap.capacity
  <2>1. heap.size <= heap.capacity /\ Heaped(data, heap.size) /\ heap.size # UIntMax
    <3>1. heap.size # UIntMax
      BY <1>1, <1>2, Limits
    <3> QED
      BY <3>1 DEF HeapInv
  <2>2. PICK c \in {heap.capacity} \cup (IF size < half THEN {ResizedTo(half)} ELSE {}) :
           /\ heap' = [heap EXCEPT !.size = size, !.capacity = c, !.data = new]
           /\ returned' = data[0] /\ fault' = fault
    BY <1>2, Zenon DEF HeapTake
  <2>3. c \in Nat /\ IsPower(c) /\ HeapDefault <= c /\ c <= TopBit /\ size <= c
    <3>1. CASE c = heap.capacity
      BY <1>1, <1>2, <3>1
    <3>2. CASE size < half /\ c = ResizedTo(half)
      <4>1. half \in Nat /\ IsPower(half) /\ half <= TopBit
        BY <1>1, <3>2, HalfOfPower, Limits
      <4> QED
        BY <1>1, <3>2, <4>1 DEF ResizedTo
    <3> QED
      BY <2>2, <3>1, <3>2
  <2>4. size \in Nat /\ data \in [0..size -> Data] /\ EachOnce(0..size, data)
    BY <1>1, <2>1 DEF Heaped
  <2>5. /\ rest \in [0..size - 1 -> Data] /\ EachOnce(0..size - 1, rest)
        /\ Elements(0..size - 1, rest) = Elements(0..size, data) \ {data[0]}
    <3> DEFINE from(i) == IF i = 0 THEN size ELSE i
    <3>1. \A i \in 0..size - 1 : from(i) \in 0..size /\ from(i) # 0 /\ rest[i] = data[from(i)]
      BY <2>4
    <3>2. \A i, j \in 0..size - 1 : from(i) = from(j) => i = j
      BY <2>4
    <3>3. \A j \in 0..size : j # 0 => \E i \in 0..size - 1 : from(i) = j
      <4> SUFFICES ASSUME NEW j \in 0..size, j # 0 PROVE \E i \in 0..size - 1 : from(i) = j
        OBVIOUS
      <4>1. CASE j = size
        <5>1. 0 \in 0..size - 1
          BY <1>1, <2>4, <4>1
        <5> QED
          BY <4>1, <5>1
      <4>2. CASE j # size
        <5>1. j \in 0..size - 1
          BY <2>4, <4>2
        <5> QED
          BY <5>1
      <4> QED
        BY <4>1, <4>2
    <3>4. rest \in [0..size - 1 -> Data]
      BY <2>4
    <3> HIDE DEF from, rest
    <3>5. EachOnce(0..size - 1, rest)
      BY <2>4, <3>1, <3>2 DEF EachOnce
    <3>6. 0 \in 0..size
      BY <2>4
    <3>7. Elements(0..size - 1, rest) \subseteq Elements(0..size, data) \ {data[0]}
      BY <2>4, <3>1, <3>6 DEF EachOnce, Elements
    <3>8. Elements(0..size, data) \ {data[0]} \subseteq Elements(0..size - 1, rest)
      BY <3>1, <3>3 DEF Elements
    <3> QED
      BY <3>4, <3>5, <3>7, <3>8
  <2>6. \A i \in 1..size - 1 : Parent(i) # 0 => Rank[rest[i]] <= Rank[rest[Parent(i)]]
    <3> SUFFICES ASSUME NEW i \in 1..size - 1, Parent(i) # 0
                 PROVE  Rank[rest[i]] <= Rank[rest[Parent(i)]]
      OBVIOUS
    <3>1. Parent(i) \in Nat /\ Parent(i) < i
      BY Parents
    <3>2. rest[i] = data[i] /\ rest[Parent(i)] = data[Parent(i)]
      BY <2>4, <3>1
    <3>3. i \in 1..heap.size - 1
      BY <1>1
    <3> QED
      BY <2>1, <3>2, <3>3 DEF Heaped
  <2> HIDE DEF rest
  <2>7. Heaped(new, size) /\ Elements(0..size - 1, new) = Elements(0..size - 1, rest)
    BY <2>4, <2>5, <2>6, DownKeeps
  <2> HIDE DEF new
  <2>8. heap' \in HeapTypes /\ heap'.size = size /\ heap'.capacity = c /\ heap'.data = new
    <3>1. heap \in HeapTypes
      BY DEF HeapInv
    <3>2. new \in [0..size - 1 -> Data]
      BY <2>7 DEF Heaped
    <3> QED
      BY <2>2, <2>3, <2>4, <3>1, <3>2 DEF HeapTypes
  <2>9. HeapInv'
    BY <2>3, <2>7, <2>8 DEF HeapInv
  <2>10. HeapsAreObjects => HeapItems' = HeapItems \ {data[0]}
    <3>1. HeapItems = Elements(0..size, data)
      BY <1>1, <2>1, Items
    <3>2. size # UIntMax
      BY <1>1, <2>1, Limits
    <3>3. HeapsAreObjects => heap' # None
      BY <2>8 DEF HeapsAreObjects
    <3>4. new \in [0..size - 1 -> Data]
      BY <2>7 DEF Heaped
    <3>5. DOMAIN new = 0..size - 1
      BY <3>4
    <3>6. HeapsAreObjects => HeapItems' = Elements(0..size - 1, new)
      BY <2>8, <3>3, <3>5 DEF HeapItems, Elements
    <3> QED
      BY <2>5, <2>7, <3>1, <3>6
  <2>11. data[0] \in PQ!Greatest
    <3>1. HeapItems = Elements(0..size, data)
      BY <1>1, <2>1, Items
    <3>2. 0 \in 0..size
      BY <2>4
    <3>3. \A i \in 0..size : Rank[data[i]] <= Rank[data[0]]
      BY <1>1, <2>1, TopIsGreatest
    <3> QED
      BY <3>1, <3>2, <3>3 DEF PQ!Greatest, Elements
  <2> QED
    BY <2>2, <2>9, <2>10, <2>11 DEF HeapStaysInside, PQ!Next, PQ!Take
<1>3. CASE ~(size < heap.capacity)
  <2>1. heap' = heap /\ fault' = "heap_take"
    BY <1>3 DEF HeapTake
  <2>2. heap.size = UIntMax
    BY <1>1, <1>3 DEF HeapInv
  <2> QED
    BY <2>1, <2>2 DEF HeapInv, HeapStaysInside
<1> QED
  BY <1>2, <1>3

\* Every call of a heap keeps it a heap, leaves its array only where it says so,
\* and is one of a priority queue.
LEMMA HeapKeeps ==
  ASSUME HeapInv, HeapNext
  PROVE  HeapInv' /\ HeapStaysInside' /\ (HeapsAreObjects /\ heap # None /\ Fine' => PQ!Next)
<1> USE DEF Stray, Returns
<1>1. Fine
  BY DEF HeapNext
<1>2. ASSUME NEW c \in 0..TopBit, HeapInit(c)
      PROVE  HeapInv' /\ HeapStaysInside' /\ heap = None
  <2> DEFINE new == [data |-> <<>>, size |-> 0, deletes |-> FALSE,
                     capacity |-> NiceSize(c, HeapDefault)]
  <2>1. heap = None /\ (heap' = new \/ heap' = heap) /\ fault' = fault
    BY <1>2 DEF HeapInit
  <2>2. c \in Nat /\ c <= TopBit
    BY Limits
  <2>3. /\ new.capacity \in Nat /\ IsPower(new.capacity)
        /\ HeapDefault <= new.capacity /\ new.capacity <= TopBit
    BY <2>2, HeapAssumption, NiceSizeFits
  <2>4. new \in HeapTypes /\ Heaped(new.data, new.size)
    <3>1. new.data \in UNION {[0..n - 1 -> Data] : n \in Nat}
      BY EmptyHeap
    <3> QED
      BY <2>3, <3>1, EmptyHeap DEF HeapTypes
  <2>5. new.size <= new.capacity
    BY <2>3
  <2> HIDE DEF new
  <2>6. HeapInv'
    BY <2>1, <2>3, <2>4, <2>5 DEF HeapInv
  <2> QED
    BY <1>1, <2>1, <2>6 DEF HeapStaysInside, Fine
<1>3. ASSUME heap # None, NEW d \in Data \ HeapItems, HeapInsert(d)
      PROVE  HeapInv' /\ HeapStaysInside' /\ (HeapsAreObjects /\ Fine' => PQ!Next)
  BY <1>1, <1>3, InsertKeeps
<1>4. ASSUME heap # None, HeapTake
      PROVE  HeapInv' /\ HeapStaysInside' /\ (HeapsAreObjects /\ Fine' => PQ!Next)
  BY <1>1, <1>4, TakeKeeps
<1>5. ASSUME heap # None, HeapRetrieve
      PROVE  HeapInv' /\ HeapStaysInside' /\ (HeapsAreObjects /\ Fine' => PQ!Next)
  <2>1. heap' = heap /\ heap.size # 0 /\ heap.size \in Nat /\ heap.capacity <= TopBit
        /\ heap.capacity \in Nat
    BY <1>5 DEF HeapRetrieve, HeapEmpty, HeapInv, HeapTypes
  <2>2. HeapInv' /\ HeapItems' = HeapItems
    BY <2>1 DEF HeapInv, HeapItems
  <2>3. CASE heap.size <= heap.capacity
    <3>1. heap.size # UIntMax
      BY <2>1, <2>3, Limits
    <3>2. Heaped(heap.data, heap.size) /\ HeapItems = Elements(0..heap.size - 1, heap.data)
      BY <1>5, <3>1, Items DEF HeapInv
    <3>3. 0 \in 0..heap.size - 1
      BY <2>1
    <3>4. \A i \in 0..heap.size - 1 : Rank[heap.data[i]] <= Rank[heap.data[0]]
      BY <2>1, <3>2, TopIsGreatest
    <3>5. heap.data[0] \in PQ!Greatest
      BY <3>2, <3>3, <3>4 DEF PQ!Greatest, Elements
    <3>6. returned' = heap.data[0] /\ fault' = "none"
      BY <1>1, <1>5, <2>3 DEF HeapRetrieve, Fine
    <3> QED
      BY <2>2, <3>5, <3>6 DEF HeapStaysInside, PQ!Next, PQ!Retrieve
  <2>4. CASE ~(heap.size <= heap.capacity)
    <3>1. heap.size = UIntMax
      BY <1>5, <2>4 DEF HeapInv
    <3>2. fault' = "heap_retrieve"
      BY <1>5, <2>4 DEF HeapRetrieve
    <3> QED
      BY <2>1, <2>2, <3>1, <3>2 DEF HeapStaysInside, Fine
  <2> QED
    BY <2>3, <2>4
<1>6. ASSUME heap # None, HeapClear
      PROVE  HeapInv' /\ HeapStaysInside' /\ (HeapsAreObjects /\ Fine' => PQ!Next)
  <2>1. heap \in HeapTypes /\ heap.capacity \in Nat /\ heap.size \in Nat
    BY <1>6 DEF HeapInv, HeapTypes
  <2>2. CASE heap.size > heap.capacity /\ heap.deletes
    <3>1. heap' = heap /\ fault' = "heap_clear" /\ heap.size = UIntMax
      BY <1>6, <2>1, <2>2 DEF HeapClear, HeapInv
    <3> QED
      BY <3>1 DEF HeapInv, HeapStaysInside, Fine
  <2>3. CASE ~(heap.size > heap.capacity /\ heap.deletes)
    <3> DEFINE new == [heap EXCEPT !.data = <<>>, !.size = IF heap.deletes THEN UIntMax ELSE 0]
    <3>1. heap' = new /\ returned' = None /\ fault' = "none"
      BY <1>1, <1>6, <2>3 DEF HeapClear, Fine
    <3>2. /\ new \in HeapTypes /\ new.data = <<>> /\ new.size \in {0, UIntMax}
          /\ new.capacity = heap.capacity
      <4>1. <<>> \in UNION {[0..n - 1 -> Data] : n \in Nat}
        BY EmptyHeap
      <4> QED
        BY <2>1, <4>1, Limits DEF HeapTypes
    <3> HIDE DEF new
    <3>3. HeapInv'
      BY <1>6, <2>1, <3>1, <3>2, EmptyHeap DEF HeapInv
    <3>4. HeapItems' = {}
      <4>1. DOMAIN new.data = {}
        BY <3>2
      <4> QED
        BY <3>1, <4>1 DEF HeapItems
    <3> QED
      BY <3>1, <3>3, <3>4, DataAssumption DEF HeapStaysInside, PQ!Next, PQ!Drop
  <2> QED
    BY <2>2, <2>3
<1>7. ASSUME heap # None, HeapSetDataDelete
      PROVE  HeapInv' /\ HeapStaysInside' /\ (HeapsAreObjects /\ Fine' => PQ!Next)
  <2> DEFINE new == [heap EXCEPT !.deletes = ~heap.deletes]
  <2>1. heap \in HeapTypes
    BY <1>7 DEF HeapInv
  <2>2. heap' = new /\ returned' = None /\ fault' = "none"
    BY <1>1, <1>7 DEF HeapSetDataDelete, Fine
  <2>3. /\ new \in HeapTypes /\ new.data = heap.data /\ new.size = heap.size
        /\ new.capacity = heap.capacity
    BY <2>1 DEF HeapTypes
  <2> HIDE DEF new
  <2>4. HeapInv'
    BY <1>7, <2>2, <2>3 DEF HeapInv
  <2>5. HeapsAreObjects => HeapItems' = HeapItems
    BY <1>7, <2>2, <2>3 DEF HeapItems, HeapsAreObjects
  <2> QED
    BY <2>2, <2>4, <2>5, DataAssumption DEF HeapStaysInside, PQ!Next, PQ!Keep
<1>8. ASSUME heap # None, HeapDestroy
      PROVE  HeapInv' /\ HeapStaysInside' /\ (HeapsAreObjects /\ Fine' => PQ!Next)
  <2>1. heap \in HeapTypes /\ heap.capacity \in Nat /\ heap.size \in Nat
    BY <1>8 DEF HeapInv, HeapTypes
  <2>2. CASE heap.size > heap.capacity /\ heap.deletes
    <3>1. heap' = heap /\ fault' = "heap_destroy" /\ heap.size = UIntMax
      BY <1>8, <2>1, <2>2 DEF HeapDestroy, HeapInv
    <3> QED
      BY <3>1 DEF HeapInv, HeapStaysInside, Fine
  <2>3. CASE ~(heap.size > heap.capacity /\ heap.deletes)
    <3>1. heap' = None /\ returned' = None /\ fault' = "none"
      BY <1>1, <1>8, <2>3 DEF HeapDestroy, Fine
    <3> QED
      BY <3>1, DataAssumption
         DEF HeapInv, HeapItems, HeapStaysInside, PQ!Next, PQ!Drop
  <2> QED
    BY <2>2, <2>3
<1> QED
  BY <1>2, <1>3, <1>4, <1>5, <1>6, <1>7, <1>8 DEF HeapNext

-----------------------------------------------------------------------------
(* Vector: the binary searches.  Elements count from 1 here, spans from 0.  *)

\* the places where "d" may go in a sorted sequence
Fits(data, d, q) ==
    /\ q \in 0..Len(data)
    /\ \A j \in 1..Len(data) : (j <= q => Rank[data[j]] <= Rank[d])
                               /\ (j > q => Rank[d] <= Rank[data[j]])

\* the elements before the span are less than "d", those behind it greater
Spanned(data, d, s) ==
    /\ s \in Spans
    /\ \/ s[2] < Len(data) /\ s[1] <= s[2] + 1
       \/ s[2] = UIntMax /\ s[1] = 0
    /\ \A j \in 1..Len(data) : (j <= s[1] => Rank[data[j]] < Rank[d])
                               /\ (s[2] = UIntMax \/ j > s[2] + 1 => Rank[d] < Rank[data[j]])

Width(s) == IF s[2] = UIntMax THEN 0 ELSE s[2] + 1 - s[1]

Ordered(data) ==
    /\ data \in Seq(Data) /\ Sorted(data) /\ Len(data) <= TopBit
    /\ \A j \in 1..Len(data) : Rank[data[j]] \in Int

\* A look at the middle halves the span, or finds an element that is equal.
LEMMA Halves ==
  ASSUME NEW data, Ordered(data), NEW d \in Data, NEW s, Spanned(data, d, s),
         s[1] <= s[2], s[2] # UIntMax
  PROVE  LET m == Middle(s[1], s[2])
             left == <<s[1], Wrap(m - 1)>>
             right == <<m + 1, s[2]>>
         IN  /\ m \in Nat /\ s[1] <= m /\ m <= s[2] /\ m < Len(data)
             /\ Rank[data[m + 1]] \in Int /\ Rank[d] \in Int
             /\ Rank[d] < Rank[data[m + 1]] =>
                   Spanned(data, d, left) /\ Width(left) < Width(s)
             /\ Rank[d] > Rank[data[m + 1]] =>
                   Spanned(data, d, right) /\ Width(right) < Width(s)
             /\ Rank[d] = Rank[data[m + 1]] => Fits(data, d, m)
<1> DEFINE m == Middle(s[1], s[2])
           n == Len(data)
           left == <<s[1], Wrap(m - 1)>>
           right == <<m + 1, s[2]>>
<1>1. /\ s \in Spans /\ s[1] \in Nat /\ s[2] \in Nat /\ s[2] < n /\ n \in Nat
      /\ n <= TopBit /\ data \in Seq(Data) /\ DOMAIN data = 1..n
  BY Limits DEF Spanned, Ordered, Spans
<1>2. m \in Nat /\ s[1] <= m /\ m <= s[2] /\ m < n /\ m + 1 \in 1..n
  <2>1. s[1] + s[2] < UIntRange /\ s[1] + s[2] \in Nat
    BY <1>1, Limits
  <2>2. m = (s[1] + s[2]) \div 2
    BY <2>1, Wraps DEF Middle
  <2> QED
    BY <1>1, <2>2
<1> HIDE DEF m
<1>3. /\ \A j \in 1..n : Rank[data[j]] \in Int
      /\ Rank[d] \in Int
      /\ \A i, j \in 1..n : i < j => Rank[data[i]] <= Rank[data[j]]
  BY <1>1, DataAssumption DEF Ordered, Sorted
<1> DEFINE r(j) == Rank[data[j]]
           x == Rank[d]
<1>4. /\ \A j \in 1..n : r(j) \in Int
      /\ x \in Int
      /\ \A i, j \in 1..n : i < j => r(i) <= r(j)
      /\ \A j \in 1..n : (j <= s[1] => r(j) < x) /\ (j > s[2] + 1 => x < r(j))
  BY <1>3 DEF Spanned
<1>5. ASSUME x < r(m + 1) PROVE Spanned(data, d, left) /\ Width(left) < Width(s)
  <2> HIDE DEF r, x
  <2>1. \A j \in 1..n : j >= m + 1 => x < r(j)
    BY <1>2, <1>4, <1>5
  <2>2. CASE m = 0
    <3>1. Wrap(m - 1) = UIntMax
      BY <2>2, Limits DEF Wrap, UIntMax
    <3>2. s[1] = 0 /\ left = <<0, UIntMax>>
      BY <1>1, <1>2, <2>2, <3>1
    <3>3. left \in Spans /\ left[1] = 0 /\ left[2] = UIntMax
      BY <3>2, Limits DEF Spans
    <3>4. \A j \in 1..n : x < r(j)
      BY <2>1, <2>2
    <3> QED
      BY <1>1, <3>3, <3>4 DEF Spanned, Width, r, x
  <2>3. CASE m # 0
    <3>1. Wrap(m - 1) = m - 1 /\ m - 1 \in Nat /\ m - 1 # UIntMax /\ m - 1 \in 0..UIntMax
      BY <1>1, <1>2, <2>3, Limits, Wraps
    <3>2. left \in Spans /\ left[1] = s[1] /\ left[2] = m - 1
      BY <1>1, <3>1, Limits DEF Spans
    <3>3. \A j \in 1..n : (j <= s[1] => r(j) < x) /\ (j > m => x < r(j))
      BY <1>2, <1>4, <2>1
    <3> HIDE DEF left
    <3>4. s[1] <= m /\ m < n /\ s[2] # UIntMax
      BY <1>1, <1>2, Limits
    <3>5. Spanned(data, d, left)
      BY <1>1, <1>2, <3>1, <3>2, <3>3, <3>4 DEF Spanned, r, x
    <3> QED
      BY <1>1, <1>2, <3>1, <3>2, <3>4, <3>5 DEF Width
  <2> QED
    BY <2>2, <2>3
<1>6. ASSUME x > r(m + 1) PROVE Spanned(data, d, right) /\ Width(right) < Width(s)
  <2> HIDE DEF r, x
  <2>1. \A j \in 1..n : j <= m + 1 => r(j) < x
    BY <1>2, <1>4, <1>6
  <2>2. right \in Spans /\ right[1] = m + 1 /\ right[2] = s[2]
    BY <1>1, <1>2, Limits DEF Spans
  <2>3. \A j \in 1..n : (j <= m + 1 => r(j) < x) /\ (j > s[2] + 1 => x < r(j))
    BY <1>4, <2>1
  <2> HIDE DEF right
  <2>4. m + 1 <= s[2] + 1 /\ s[2] < n /\ s[2] # UIntMax
    BY <1>1, <1>2, Limits
  <2>5. Spanned(data, d, right)
    BY <1>1, <1>2, <2>2, <2>3, <2>4 DEF Spanned, r, x
  <2> QED
    BY <1>1, <1>2, <2>2, <2>4, <2>5 DEF Width
<1>7. ASSUME x = r(m + 1) PROVE Fits(data, d, m)
  <2> HIDE DEF r, x
  <2>1. \A j \in 1..n : (j <= m => r(j) <= x) /\ (j > m => x <= r(j))
    BY <1>2, <1>4, <1>7
  <2> QED
    BY <1>2, <2>1 DEF Fits, r, x
<1> QED
  BY <1>2, <1>3, <1>5, <1>6, <1>7 DEF m

\* Both searches start with all of the sequence.
LEMMA WholeSpan ==
  ASSUME NEW data, Ordered(data), NEW d, data # <<>>
  PROVE  /\ Spanned(data, d, <<0, Len(data) - 1>>)
         /\ Len(data) - 1 # UIntMax /\ Len(data) - 1 \in Nat
BY Limits DEF Ordered, Spanned, Spans

\* Every step of a search leads to a span.
LEMMA SpanNumbers ==
  ASSUME NEW s \in Spans
  PROVE  LET m == Middle(s[1], s[2])
         IN  /\ s[1] \in Nat /\ s[1] <= UIntMax /\ s[2] \in 0..UIntMax /\ m \in Nat
             /\ m + 1 \in 0..UIntMax /\ Wrap(m - 1) \in 0..UIntMax
<1> DEFINE m == Middle(s[1], s[2])
<1>1. s[1] \in 0..UIntMax /\ s[2] \in 0..UIntMax /\ s[1] + s[2] \in Nat
  BY Limits DEF Spans
<1>2. Wrap(s[1] + s[2]) \in Nat /\ Wrap(s[1] + s[2]) < UIntRange
  BY <1>1, Wraps
<1>3. m \in Nat /\ m < TopBit
  BY <1>2, Limits DEF Middle
<1>4. m - 1 \in Int
  BY <1>3
<1> HIDE DEF m
<1>5. Wrap(m - 1) \in 0..UIntMax
  BY <1>4, Limits DEF Wrap, UIntMax
<1> QED
  BY <1>1, <1>3, <1>5, Limits DEF m

\* vector_insert_sorted() finds a place that keeps the order.
LEMMA PlaceFits ==
  ASSUME NEW data, Ordered(data), NEW d \in Data
  PROVE  Fits(data, d, PlaceSorted(data, d))
<1> DEFINE m(s) == Middle(s[1], s[2])
           over(s) == s[1] > s[2] \/ s[2] = UIntMax
           less(s) == Rank[d] < Rank[data[m(s) + 1]]
           more(s) == Rank[d] > Rank[data[m(s) + 1]]
           stops == {s \in Spans : over(s) \/ (~less(s) /\ ~more(s))}
           ends == [s \in Spans |-> IF over(s) THEN s[1] ELSE m(s)]
           succ == [s \in Spans |-> IF less(s) THEN <<s[1], Wrap(m(s) - 1)>>
                                    ELSE <<m(s) + 1, IF s \in Spans THEN s[2] ELSE 0>>]
           Searches(g) == g = [s \in Spans |-> IF over(s) THEN s[1]
                                 ELSE IF less(s) THEN g[<<s[1], Wrap(m(s) - 1)>>]
                                 ELSE IF more(s) THEN g[<<m(s) + 1, s[2]>>] ELSE m(s)]
           search == CHOOSE g : Searches(g)
<1>1. CASE data = <<>>
  BY <1>1 DEF PlaceSorted, Fits
<1>2. CASE data # <<>>
  <2>1. PlaceSorted(data, d) = search[<<0, Len(data) - 1>>]
    BY <1>2 DEF PlaceSorted
  <2>2. ASSUME NEW s \in Spans
        PROVE  /\ s[1] \in Nat /\ s[1] <= UIntMax /\ s[2] \in 0..UIntMax /\ m(s) \in Nat
               /\ m(s) + 1 \in 0..UIntMax /\ Wrap(m(s) - 1) \in 0..UIntMax
    BY SpanNumbers
  <2> HIDE DEF m
  <2>3. ends \in [Spans -> Nat] /\ succ \in [Spans -> Spans]
    BY <2>2 DEF Spans
  <2>4. PICK g : Arrives(Spans, Nat, stops, ends, succ, g)
    <3>1. Follows(Spans, Nat, ends, succ)
      BY <2>3 DEF Follows, SelfMaps
    <3> HIDE DEF stops, ends, succ
    <3> QED
      BY <3>1, TailRecursion
  <2>5. Searches(g)
    <3>1. ASSUME NEW s \in Spans
          PROVE  g[s] = IF over(s) THEN s[1]
                        ELSE IF less(s) THEN g[<<s[1], Wrap(m(s) - 1)>>]
                        ELSE IF more(s) THEN g[<<m(s) + 1, s[2]>>] ELSE m(s)
      <4>1. g[s] = IF s \in stops THEN ends[s] ELSE g[succ[s]]
        BY <2>4 DEF Arrives
      <4>2. s \in stops <=> over(s) \/ (~less(s) /\ ~more(s))
        OBVIOUS
      <4> HIDE DEF over, less, more, stops
      <4> QED
        BY <4>1, <4>2
    <3>2. g \in [Spans -> Nat]
      BY <2>4 DEF Arrives
    <3> HIDE DEF over, less, more
    <3> QED
      BY <3>1, <3>2
  <2>6. Searches(search)
    <3> HIDE DEF Searches
    <3> QED
      BY <2>5
  <2>7. \A s \in Spans : search[s] = IF over(s) THEN s[1]
                        ELSE IF less(s) THEN search[<<s[1], Wrap(m(s) - 1)>>]
                        ELSE IF more(s) THEN search[<<m(s) + 1, s[2]>>] ELSE m(s)
    <3> HIDE DEF over, less, more, search
    <3> QED
      BY <2>6
  <2> HIDE DEF search
  <2> DEFINE S == {k \in Nat : \A s \in Spans :
                      Spanned(data, d, s) /\ Width(s) <= k => Fits(data, d, search[s])}
  <2>8. ASSUME NEW s \in Spans, Spanned(data, d, s), over(s) PROVE Fits(data, d, search[s])
    <3>1. search[s] = s[1]
      BY <2>7, <2>8
    <3>2. /\ \A j \in 1..Len(data) : Rank[data[j]] \in Int
          /\ Rank[d] \in Int /\ Len(data) \in Nat
      BY DataAssumption DEF Ordered
    <3>3. s[1] \in Nat /\ s[2] \in Nat
      BY <2>2
    <3> DEFINE n == Len(data)
               r(j) == Rank[data[j]]
               x == Rank[d]
    <3>4. /\ \/ s[2] < n /\ s[1] <= s[2] + 1
             \/ s[2] = UIntMax /\ s[1] = 0
          /\ \A j \in 1..n : (j <= s[1] => r(j) < x)
                              /\ (s[2] = UIntMax \/ j > s[2] + 1 => x < r(j))
      BY <2>8 DEF Spanned
    <3>5. s[1] \in 0..n
      BY <3>2, <3>3, <3>4
    <3>6. \A j \in 1..n : (j <= s[1] => r(j) <= x) /\ (j > s[1] => x <= r(j))
      <4>1. \A j \in 1..n : r(j) \in Int /\ x \in Int
        BY <3>2
      <4> HIDE DEF r, x
      <4> QED
        BY <2>8, <3>2, <3>3, <3>4, <4>1
    <3> QED
      BY <3>1, <3>5, <3>6 DEF Fits
  <2>9. ASSUME NEW s \in Spans, Spanned(data, d, s), ~over(s)
        PROVE  /\ less(s) => /\ search[s] = search[<<s[1], Wrap(m(s) - 1)>>]
                             /\ Spanned(data, d, <<s[1], Wrap(m(s) - 1)>>)
                             /\ Width(<<s[1], Wrap(m(s) - 1)>>) < Width(s)
               /\ more(s) => /\ search[s] = search[<<m(s) + 1, s[2]>>]
                             /\ Spanned(data, d, <<m(s) + 1, s[2]>>)
                             /\ Width(<<m(s) + 1, s[2]>>) < Width(s)
               /\ ~less(s) /\ ~more(s) => Fits(data, d, search[s])
    <3>1. s[1] <= s[2] /\ s[2] # UIntMax
      BY <2>2, <2>9
    <3>2. /\ Rank[data[m(s) + 1]] \in Int /\ Rank[d] \in Int
          /\ Rank[d] < Rank[data[m(s) + 1]] =>
                   Spanned(data, d, <<s[1], Wrap(m(s) - 1)>>)
                   /\ Width(<<s[1], Wrap(m(s) - 1)>>) < Width(s)
          /\ Rank[d] > Rank[data[m(s) + 1]] =>
                   Spanned(data, d, <<m(s) + 1, s[2]>>)
                   /\ Width(<<m(s) + 1, s[2]>>) < Width(s)
          /\ Rank[d] = Rank[data[m(s) + 1]] => Fits(data, d, m(s))
      BY <2>9, <3>1, Halves DEF m
    <3>3. ~less(s) /\ ~more(s) => Rank[d] = Rank[data[m(s) + 1]]
      BY <3>2
    <3>4. ~(less(s) /\ more(s))
      BY <3>2
    <3> HIDE DEF over
    <3> QED
      BY <2>7, <2>9, <3>2, <3>3, <3>4
  <2>10. ASSUME NEW s, Spanned(data, d, s) PROVE Width(s) \in Nat
    <3>1. /\ s[1] \in Nat /\ s[2] \in Nat
          /\ s[1] <= s[2] + 1 \/ s[2] = UIntMax
      BY <2>10, <2>2 DEF Spanned
    <3> QED
      BY <3>1 DEF Width
  <2>11. \A s : Spanned(data, d, s) => s \in Spans
    BY DEF Spanned
  <2> HIDE DEF over, less, more
  <2>12. ASSUME NEW s \in Spans, Spanned(data, d, s),
                \A t : Spanned(data, d, t) /\ Width(t) < Width(s) => Fits(data, d, search[t])
         PROVE  Fits(data, d, search[s])
    <3> HIDE DEF S
    <3> QED
      BY <2>8, <2>9, <2>12
  <2>13. 0 \in S /\ \A k \in Nat : k \in S => k + 1 \in S
    <3>1. ASSUME NEW s \in Spans, Spanned(data, d, s), Width(s) <= 0
          PROVE  Fits(data, d, search[s])
      BY <2>10, <2>12, <3>1
    <3>2. ASSUME NEW k \in Nat, k \in S, NEW s \in Spans, Spanned(data, d, s), Width(s) <= k + 1
          PROVE  Fits(data, d, search[s])
      <4>1. \A t : Spanned(data, d, t) /\ Width(t) < Width(s) => Fits(data, d, search[t])
        BY <2>10, <2>11, <3>2
      <4> QED
        BY <2>12, <3>2, <4>1
    <3> QED
      BY <3>1, <3>2
  <2> HIDE DEF S
  <2>14. Nat \subseteq S
    BY <2>13, NumberInduction
  <2>15. Spanned(data, d, <<0, Len(data) - 1>>)
    BY <1>2, WholeSpan
  <2> QED
    BY <2>1, <2>10, <2>11, <2>14, <2>15 DEF S
<1> QED
  BY <1>1, <1>2

\* what vector_index_of_sorted() may answer
Answers(data, d, i) ==
    \/ i \in 0..Len(data) - 1 /\ Rank[data[i + 1]] = Rank[d]
    \/ /\ i \in {NotFound, Outside}
       /\ \A j \in 1..Len(data) : Rank[data[j]] # Rank[d]
       /\ i = Outside <=> \A j \in 1..Len(data) : Rank[d] < Rank[data[j]]

\* It answers with an equal element, if there is one; it looks outside of the
\* array, if that is not empty, when every element is greater.
LEMMA IndexAnswers ==
  ASSUME NEW data, Ordered(data), data # <<>>, Len(data) < TopBit, NEW d \in Data
  PROVE  Answers(data, d, IndexOfSorted(data, d))
<1> DEFINE n == Len(data)
           m(s) == Middle(s[1], s[2])
           out(s) == m(s) >= n
           less(s) == Rank[d] < Rank[data[m(s) + 1]]
           more(s) == Rank[d] > Rank[data[m(s) + 1]]
           stops == {s \in Spans : s[1] > s[2] \/ out(s) \/ (~less(s) /\ ~more(s))}
           ends == [s \in Spans |-> IF s[1] > s[2] THEN NotFound ELSE IF out(s) THEN Outside
                                    ELSE m(s)]
           succ == [s \in Spans |-> IF less(s) THEN <<s[1], Wrap(m(s) - 1)>>
                                    ELSE <<m(s) + 1, IF s \in Spans THEN s[2] ELSE 0>>]
           Searches(g) == g = [s \in Spans |-> IF s[1] > s[2] THEN NotFound
                                 ELSE IF out(s) THEN Outside
                                 ELSE IF less(s) THEN g[<<s[1], Wrap(m(s) - 1)>>]
                                 ELSE IF more(s) THEN g[<<m(s) + 1, s[2]>>] ELSE m(s)]
           search == CHOOSE g : Searches(g)
<1>1. IndexOfSorted(data, d) = search[<<0, n - 1>>]
  BY DEF IndexOfSorted
<1>2. ASSUME NEW s \in Spans
      PROVE  /\ s[1] \in Nat /\ s[1] <= UIntMax /\ s[2] \in 0..UIntMax /\ m(s) \in Nat
             /\ m(s) + 1 \in 0..UIntMax /\ Wrap(m(s) - 1) \in 0..UIntMax
  BY SpanNumbers
<1>3. /\ n \in Nat /\ n < TopBit /\ n > 0 /\ \A j \in 1..n : Rank[data[j]] \in Int
      /\ Rank[d] \in Int
  BY DataAssumption, Limits DEF Ordered
<1>4. m(<<0, UIntMax>>) >= n /\ <<0, UIntMax>> \in Spans
  <2>1. 0 + UIntMax \in Nat /\ 0 + UIntMax < UIntRange
    BY Limits
  <2>2. m(<<0, UIntMax>>) = UIntMax \div 2
    <3>1. Wrap(0 + UIntMax) = UIntMax
      BY <2>1, Limits, Wraps
    <3>2. m(<<0, UIntMax>>) = Wrap(0 + UIntMax) \div 2
      BY DEF Middle
    <3> QED
      BY <3>1, <3>2
  <2>3. UIntMax = 2 * (TopBit - 1) + 1 /\ TopBit - 1 \in Nat
    BY Limits
  <2>4. UIntMax \div 2 = TopBit - 1
    BY <2>3
  <2>5. <<0, UIntMax>> \in Spans
    BY Limits DEF Spans
  <2> QED
    BY <1>3, <2>2, <2>4, <2>5, Limits
<1> HIDE DEF m
<1>5. ends \in [Spans -> Int] /\ succ \in [Spans -> Spans]
  <2>1. NotFound \in Int /\ Outside \in Int
    BY Limits DEF NotFound, Outside
  <2>2. \A s \in Spans : m(s) \in Int
    BY <1>2
  <2>3. ends \in [Spans -> Int]
    <3> HIDE DEF out
    <3> QED
      BY <2>1, <2>2
  <2>4. \A s \in Spans : s[1] \in 0..UIntMax /\ s[2] \in 0..UIntMax
    BY <1>2
  <2>5. succ \in [Spans -> Spans]
    <3> HIDE DEF less
    <3> QED
      BY <1>2, <2>4 DEF Spans
  <2> QED
    BY <2>3, <2>5
<1>6. PICK g : Arrives(Spans, Int, stops, ends, succ, g)
  <2>1. Follows(Spans, Int, ends, succ)
    BY <1>5 DEF Follows, SelfMaps
  <2> HIDE DEF stops, ends, succ
  <2> QED
    BY <2>1, TailRecursion
<1>7. Searches(g)
  <2>1. ASSUME NEW s \in Spans
        PROVE  g[s] = IF s[1] > s[2] THEN NotFound
                      ELSE IF out(s) THEN Outside
                      ELSE IF less(s) THEN g[<<s[1], Wrap(m(s) - 1)>>]
                      ELSE IF more(s) THEN g[<<m(s) + 1, s[2]>>] ELSE m(s)
    <3>1. g[s] = IF s \in stops THEN ends[s] ELSE g[succ[s]]
      BY <1>6 DEF Arrives
    <3>2. s \in stops <=> s[1] > s[2] \/ out(s) \/ (~less(s) /\ ~more(s))
      OBVIOUS
    <3> HIDE DEF out, less, more, stops
    <3> QED
      BY <3>1, <3>2
  <2>2. g \in [Spans -> Int]
    BY <1>6 DEF Arrives
  <2> HIDE DEF out, less, more
  <2> QED
    BY <2>1, <2>2
<1>8. Searches(search)
  <2> HIDE DEF Searches
  <2> QED
    BY <1>7
<1>9. \A s \in Spans : search[s] = IF s[1] > s[2] THEN NotFound
                        ELSE IF out(s) THEN Outside
                        ELSE IF less(s) THEN search[<<s[1], Wrap(m(s) - 1)>>]
                        ELSE IF more(s) THEN search[<<m(s) + 1, s[2]>>] ELSE m(s)
  <2> HIDE DEF out, less, more, search
  <2> QED
    BY <1>8
<1> HIDE DEF search
\* A span of which nothing is left: the search ends, or goes outside.
<1>10. ASSUME NEW s \in Spans, Spanned(data, d, s), s[1] > s[2] \/ s[2] = UIntMax
       PROVE  Answers(data, d, search[s])
  <2>1. s[1] \in Nat /\ s[2] \in Nat /\ UIntMax \in Nat
    BY <1>2, Limits
  <2>2. CASE s[2] = UIntMax
    <3>1. s = <<0, UIntMax>>
      BY <1>3, <1>10, <2>2, Limits DEF Spanned, Spans
    <3>2. search[s] = Outside
      <4>1. s[1] = 0 /\ s[2] = UIntMax /\ m(s) >= n
        BY <1>4, <3>1
      <4>2. ~(s[1] > s[2]) /\ out(s)
        BY <2>1, <4>1
      <4> HIDE DEF out, less, more
      <4> QED
        BY <1>9, <4>2
    <3>3. \A j \in 1..n : Rank[d] < Rank[data[j]]
      BY <1>10, <2>2 DEF Spanned
    <3>4. \A j \in 1..n : Rank[d] # Rank[data[j]]
      BY <1>3, <3>3
    <3> QED
      BY <3>2, <3>3, <3>4 DEF Answers
  <2>3. CASE s[2] # UIntMax
    <3>1. s[1] > s[2] /\ s[2] < n /\ s[1] = s[2] + 1
      BY <1>10, <2>1, <2>3 DEF Spanned
    <3>2. search[s] = NotFound
      BY <1>9, <3>1
    <3>3. \A j \in 1..n : Rank[data[j]] < Rank[d] \/ Rank[d] < Rank[data[j]]
      BY <1>10, <2>1, <3>1 DEF Spanned
    <3>4. \A j \in 1..n : Rank[d] # Rank[data[j]]
      BY <1>3, <3>3
    <3>5. 1 \in 1..n /\ Rank[data[1]] < Rank[d]
      BY <1>3, <1>10, <2>1, <3>1 DEF Spanned
    <3>6. ~ \A j \in 1..n : Rank[d] < Rank[data[j]]
      BY <1>3, <3>5
    <3>7. NotFound # Outside
      BY Limits DEF NotFound, Outside
    <3> QED
      BY <3>2, <3>4, <3>6, <3>7 DEF Answers
  <2> QED
    BY <2>2, <2>3
<1>11. ASSUME NEW s \in Spans, Spanned(data, d, s), ~(s[1] > s[2] \/ s[2] = UIntMax),
              \A t : Spanned(data, d, t) /\ Width(t) < Width(s) => Answers(data, d, search[t])
       PROVE  Answers(data, d, search[s])
  <2>1. s[1] <= s[2] /\ s[2] # UIntMax
    BY <1>2, <1>11
  <2>2. /\ m(s) \in Nat /\ m(s) < n
        /\ Rank[data[m(s) + 1]] \in Int /\ Rank[d] \in Int
        /\ Rank[d] < Rank[data[m(s) + 1]] =>
                 Spanned(data, d, <<s[1], Wrap(m(s) - 1)>>)
                 /\ Width(<<s[1], Wrap(m(s) - 1)>>) < Width(s)
        /\ Rank[d] > Rank[data[m(s) + 1]] =>
                 Spanned(data, d, <<m(s) + 1, s[2]>>)
                 /\ Width(<<m(s) + 1, s[2]>>) < Width(s)
    BY <1>11, <2>1, Halves DEF m
  <2>3. ~out(s) /\ ~(s[1] > s[2])
    BY <1>3, <1>11, <2>2
  <2>4. CASE less(s)
    <3>1. search[s] = search[<<s[1], Wrap(m(s) - 1)>>]
      <4> HIDE DEF out, less, more
      <4> QED
        BY <1>9, <2>3, <2>4
    <3> QED
      BY <1>11, <2>2, <2>4, <3>1
  <2>5. CASE more(s)
    <3>1. ~less(s)
      BY <2>2, <2>5
    <3>2. search[s] = search[<<m(s) + 1, s[2]>>]
      <4> HIDE DEF out, less, more
      <4> QED
        BY <1>9, <2>3, <2>5, <3>1
    <3> QED
      BY <1>11, <2>2, <2>5, <3>2
  <2>6. CASE ~less(s) /\ ~more(s)
    <3>1. search[s] = m(s)
      <4> HIDE DEF out, less, more
      <4> QED
        BY <1>9, <2>3, <2>6
    <3>2. Rank[data[m(s) + 1]] = Rank[d] /\ m(s) \in 0..n - 1
      BY <1>3, <2>2, <2>6
    <3> QED
      BY <3>1, <3>2 DEF Answers
  <2> QED
    BY <2>4, <2>5, <2>6
<1> DEFINE S == {k \in Nat : \A s \in Spans :
                    Spanned(data, d, s) /\ Width(s) <= k => Answers(data, d, search[s])}
<1>12. ASSUME NEW s, Spanned(data, d, s) PROVE Width(s) \in Nat /\ s \in Spans
  <2>1. s \in Spans
    BY <1>12 DEF Spanned
  <2>2. /\ s[1] \in Nat /\ s[2] \in Nat
        /\ s[1] <= s[2] + 1 \/ s[2] = UIntMax
    BY <1>12, <1>2, <2>1 DEF Spanned
  <2> QED
    BY <2>1, <2>2 DEF Width
<1>13. 0 \in S /\ \A k \in Nat : k \in S => k + 1 \in S
  <2>1. ASSUME NEW s \in Spans, Spanned(data, d, s), Width(s) <= 0
        PROVE  Answers(data, d, search[s])
    BY <1>10, <1>11, <1>12, <2>1
  <2>2. ASSUME NEW k \in Nat, k \in S, NEW s \in Spans, Spanned(data, d, s), Width(s) <= k + 1
        PROVE  Answers(data, d, search[s])
    <3>1. \A t : Spanned(data, d, t) /\ Width(t) < Width(s) => Answers(data, d, search[t])
      BY <1>12, <2>2
    <3> QED
      BY <1>10, <1>11, <2>2, <3>1
  <2> QED
    BY <2>1, <2>2
<1> HIDE DEF S
<1>14. Nat \subseteq S
  BY <1>13, NumberInduction
<1>15. Spanned(data, d, <<0, n - 1>>)
  BY WholeSpan
<1> QED
  BY <1>1, <1>12, <1>14, <1>15 DEF S

-----------------------------------------------------------------------------
(* Vector: the calls *)

VectorTypes == [data : Seq(Data), capacity : Nat, compares : BOOLEAN]

\* The capacity is a power of two, and holds the elements.
VectorInv ==
    vec # None =>
        /\ vec \in VectorTypes
        /\ IsPower(vec.capacity)
        /\ VectorDefault <= vec.capacity /\ vec.capacity <= TopBit
        /\ Len(vec.data) <= vec.capacity

LEMMA Inserted ==
  ASSUME NEW s \in Seq(Data), NEW q \in 0..Len(s), NEW d \in Data
  PROVE  /\ InsertAt(s, q + 1, d) \in Seq(Data)
         /\ Len(InsertAt(s, q + 1, d)) = Len(s) + 1
         /\ \A j \in 1..Len(s) + 1 :
               /\ j <= q => InsertAt(s, q + 1, d)[j] = s[j]
               /\ j = q + 1 => InsertAt(s, q + 1, d)[j] = d
               /\ j > q + 1 => InsertAt(s, q + 1, d)[j] = s[j - 1]
<1> DEFINE a == SubSeq(s, 1, q)
           b == SubSeq(s, q + 1, Len(s))
<1>1. q \in Nat /\ Len(s) \in Nat /\ (q + 1) - 1 = q /\ \A j \in 1..Len(s) : s[j] \in Data
  BY LenProperties
<1>2. InsertAt(s, q + 1, d) = a \o <<d>> \o b
  <2>1. SubSeq(s, 1, (q + 1) - 1) = a
    BY <1>1
  <2> HIDE DEF a
  <2> QED
    BY <2>1 DEF InsertAt
<1>3. a \in Seq(Data) /\ Len(a) = q /\ \A j \in 1..q : a[j] = s[j]
  <2>1. /\ a \in Seq(Data) /\ Len(a) = q + 1 - 1
        /\ \A j \in Nat : 1 <= j /\ j <= q + 1 - 1 => a[j] = s[1 + j - 1]
    BY <1>1, PartOf
  <2> HIDE DEF a
  <2> QED
    BY <1>1, <2>1
<1>4. b \in Seq(Data) /\ Len(b) = Len(s) - q /\ \A j \in 1..Len(s) - q : b[j] = s[q + j]
  <2>1. /\ b \in Seq(Data) /\ Len(b) = Len(s) + 1 - (q + 1)
        /\ \A j \in Nat : 1 <= j /\ j <= Len(s) + 1 - (q + 1) => b[j] = s[(q + 1) + j - 1]
    BY <1>1, PartOf
  <2> HIDE DEF b
  <2> QED
    BY <1>1, <2>1
<1> HIDE DEF a, b
<1> DEFINE c == a \o <<d>>
<1>5. /\ c \in Seq(Data) /\ Len(c) = q + 1
      /\ \A j \in 1..q + 1 : c[j] = IF j <= q THEN a[j] ELSE d
  <2>1. <<d>> \in Seq(Data) /\ Len(<<d>>) = 1 /\ <<d>>[1] = d
    OBVIOUS
  <2>2. /\ c \in Seq(Data) /\ Len(c) = Len(a) + Len(<<d>>)
        /\ \A j \in 1..Len(a) + Len(<<d>>) : c[j] = IF j <= Len(a) THEN a[j] ELSE <<d>>[j - Len(a)]
    BY <1>3, <2>1, ConcatProperties
  <2> HIDE DEF c
  <2> QED
    BY <1>1, <1>3, <2>1, <2>2
<1> HIDE DEF c
<1>6. /\ c \o b \in Seq(Data) /\ Len(c \o b) = Len(c) + Len(b)
      /\ \A j \in 1..Len(c) + Len(b) : (c \o b)[j] = IF j <= Len(c) THEN c[j] ELSE b[j - Len(c)]
  BY <1>4, <1>5, ConcatProperties
<1>7. InsertAt(s, q + 1, d) = c \o b
  BY <1>2 DEF c
<1>8. Len(c) + Len(b) = Len(s) + 1
  BY <1>1, <1>4, <1>5
<1>9. ASSUME NEW j \in 1..Len(s) + 1
      PROVE  /\ j <= q => (c \o b)[j] = s[j]
             /\ j = q + 1 => (c \o b)[j] = d
             /\ j > q + 1 => (c \o b)[j] = s[j - 1]
  <2>1. CASE j <= q + 1
    BY <1>1, <1>3, <1>5, <1>6, <1>8, <2>1
  <2>2. CASE j > q + 1
    <3>1. (c \o b)[j] = b[j - (q + 1)] /\ j - (q + 1) \in 1..Len(s) - q
      BY <1>1, <1>5, <1>6, <1>8, <2>2
    <3>2. b[j - (q + 1)] = s[q + (j - (q + 1))] /\ q + (j - (q + 1)) = j - 1
      BY <1>1, <1>4, <3>1
    <3>3. (c \o b)[j] = s[j - 1]
      BY <3>1, <3>2
    <3>4. ~(j <= q) /\ j # q + 1
      BY <1>1, <2>2
    <3> QED
      BY <3>3, <3>4
  <2>3. j <= q + 1 \/ j > q + 1
    BY <1>1
  <2> QED
    BY <2>1, <2>2, <2>3
<1> QED
  BY <1>6, <1>7, <1>8, <1>9

LEMMA RemovedOne ==
  ASSUME NEW s \in Seq(Data), NEW i \in 1..Len(s)
  PROVE  RemoveAt(s, i) \in Seq(Data) /\ Len(RemoveAt(s, i)) = Len(s) - 1
<1> DEFINE a == SubSeq(s, 1, i - 1)
           b == SubSeq(s, i + 1, Len(s))
<1>1. Len(s) \in Nat /\ i \in Nat /\ i >= 1 /\ i <= Len(s)
  BY LenProperties
<1>2. a \in Seq(Data) /\ Len(a) = i - 1
  BY <1>1, PartOf
<1>3. b \in Seq(Data) /\ Len(b) = Len(s) - i
  BY <1>1, PartOf
<1>4. RemoveAt(s, i) = a \o b
  BY DEF RemoveAt
<1> HIDE DEF a, b
<1>5. a \o b \in Seq(Data) /\ Len(a \o b) = Len(a) + Len(b)
  BY <1>2, <1>3, ConcatProperties
<1> QED
  BY <1>1, <1>2, <1>3, <1>4, <1>5

\* An element put where it fits leaves the sequence sorted.
LEMMA InsertionSorts ==
  ASSUME NEW data, Ordered(data), NEW d \in Data, NEW q, Fits(data, d, q)
  PROVE  Sorted(InsertAt(data, q + 1, d))
<1> DEFINE n == Len(data)
           new == InsertAt(data, q + 1, d)
<1>1. data \in Seq(Data) /\ n \in Nat /\ DOMAIN data = 1..n
  BY LenProperties DEF Ordered
<1>2. /\ q \in 0..n
      /\ \A j \in 1..n : (j <= q => Rank[data[j]] <= Rank[d])
                         /\ (j > q => Rank[d] <= Rank[data[j]])
  BY DEF Fits
<1>3. /\ new \in Seq(Data) /\ Len(new) = n + 1
      /\ \A j \in 1..n + 1 : /\ j <= q => new[j] = data[j]
                             /\ j = q + 1 => new[j] = d
                             /\ j > q + 1 => new[j] = data[j - 1]
  BY <1>1, <1>2, Inserted
<1>4. /\ \A a, b \in 1..n : a < b => Rank[data[a]] <= Rank[data[b]]
      /\ \A a \in 1..n : Rank[data[a]] \in Int
      /\ Rank[d] \in Int
  BY <1>1, DataAssumption DEF Ordered, Sorted
<1> HIDE DEF new, n
<1>5. DOMAIN new = 1..n + 1
  BY <1>3, LenProperties
<1> SUFFICES ASSUME NEW j \in 1..n + 1, NEW k \in 1..n + 1, j < k
             PROVE  Rank[new[j]] <= Rank[new[k]]
  BY <1>5 DEF Sorted, new
<1>6. CASE k <= q
  BY <1>1, <1>2, <1>3, <1>4, <1>6
<1>7. CASE k = q + 1
  BY <1>1, <1>2, <1>3, <1>4, <1>7
<1>8. CASE k > q + 1
  <2>1. new[k] = data[k - 1] /\ k - 1 \in 1..n /\ k - 1 > q
    BY <1>1, <1>2, <1>3, <1>8
  <2>2. CASE j <= q
    BY <1>1, <1>2, <1>3, <1>4, <2>1, <2>2
  <2>3. CASE j = q + 1
    BY <1>1, <1>2, <1>3, <1>4, <2>1, <2>3
  <2>4. CASE j > q + 1
    <3>1. new[j] = data[j - 1] /\ j - 1 \in 1..n /\ j - 1 < k - 1
      BY <1>1, <1>2, <1>3, <2>4
    <3> QED
      BY <1>4, <2>1, <3>1
  <2> QED
    BY <1>1, <1>2, <2>2, <2>3, <2>4
<1> QED
  BY <1>1, <1>2, <1>6, <1>7, <1>8

\* The searches do in a vector what VectorSearches says.
LEMMA SearchesRight == VectorInv => VectorSearches
<1> SUFFICES ASSUME VectorInv, vec # None, vec.compares, Sorted(vec.data),
                    Len(vec.data) < TopBit, NEW d \in Data
             PROVE  LET i == IndexOfSorted(vec.data, d)
                        equal == {j \in DOMAIN vec.data : Rank[vec.data[j]] = Rank[d]}
                    IN  /\ Sorted(InsertAt(vec.data, PlaceSorted(vec.data, d) + 1, d))
                        /\ equal # {} => i + 1 \in equal
                        /\ equal = {} => i \in {NotFound, Outside}
                        /\ i = Outside <=> vec.data # <<>>
                               /\ \A j \in DOMAIN vec.data : Rank[d] < Rank[vec.data[j]]
  BY DEF VectorSearches
<1> DEFINE data == vec.data
           n == Len(data)
           i == IndexOfSorted(data, d)
           q == PlaceSorted(data, d)
           equal == {j \in DOMAIN data : Rank[data[j]] = Rank[d]}
<1>1. data \in Seq(Data) /\ n \in Nat /\ DOMAIN data = 1..n
  BY DEF VectorInv, VectorTypes
<1>2. Ordered(data)
  <2>1. \A j \in 1..n : data[j] \in Data
    BY <1>1, LenProperties
  <2>2. Sorted(data) /\ n < TopBit
    OBVIOUS
  <2> HIDE DEF data
  <2> QED
    BY <1>1, <2>1, <2>2, DataAssumption, Limits DEF Ordered
<1>3. Sorted(InsertAt(data, q + 1, d))
  <2>1. Fits(data, d, q)
    BY <1>2, PlaceFits
  <2> HIDE DEF data, q
  <2> QED
    BY <1>2, <2>1, InsertionSorts
<1>4. CASE data = <<>>
  <2>1. i = NotFound /\ equal = {} /\ NotFound # Outside
    BY <1>4, Limits DEF IndexOfSorted, NotFound, Outside
  <2> QED
    BY <1>3, <1>4, <2>1
<1>5. CASE data # <<>>
  <2>1. Answers(data, d, i)
    BY <1>2, <1>5, IndexAnswers
  <2> HIDE DEF i
  <2>2. n > 0 /\ 1 \in 1..n /\ \A j \in 1..n : Rank[data[j]] \in Int
    BY <1>1, <1>2, <1>5 DEF Ordered
  <2>3. CASE i \in 0..n - 1 /\ Rank[data[i + 1]] = Rank[d]
    <3>1. i + 1 \in equal /\ i # Outside
      BY <1>1, <2>3 DEF Outside
    <3>2. ~ \A j \in 1..n : Rank[d] < Rank[data[j]]
      BY <1>1, <2>2, <2>3
    <3> HIDE DEF equal
    <3>3. equal # {} => i + 1 \in equal
      BY <3>1
    <3>4. equal = {} => i \in {NotFound, Outside}
      BY <3>1
    <3>5. i = Outside <=> data # <<>> /\ \A j \in DOMAIN data : Rank[d] < Rank[data[j]]
      BY <1>1, <3>1, <3>2
    <3> QED
      BY <1>3, <3>3, <3>4, <3>5 DEF i, q, equal
  <2>4. CASE /\ i \in {NotFound, Outside}
             /\ \A j \in 1..n : Rank[data[j]] # Rank[d]
             /\ i = Outside <=> \A j \in 1..n : Rank[d] < Rank[data[j]]
    <3>1. equal = {}
      BY <1>1, <2>4
    <3> HIDE DEF equal
    <3> QED
      BY <1>1, <1>3, <1>5, <2>4, <3>1 DEF i, q
  <2> QED
    BY <2>1, <2>3, <2>4 DEF Answers
<1> QED
  BY <1>4, <1>5

\* The loop of vector_take_all(), of which TakeAllOf chooses one.
ScansFor(scan, d) ==
    \A s \in Seq(Data) :
        /\ Len(scan[s]) <= Len(s)
        /\ scan[s] = IF s = <<>> THEN s
              ELSE IF ~Same(Head(s), d) THEN <<Head(s)>> \o scan[Tail(s)]
              ELSE IF Len(s) = 1 THEN <<>> ELSE <<s[2]>> \o scan[SubSeq(s, 3, Len(s))]

\* There is one, and it only takes elements out.
LEMMA TakeAllScan ==
  ASSUME NEW data \in Seq(Data), NEW d
  PROVE  \E scan \in [Seq(Data) -> Seq(Data)] :
            TakeAllOf(data, d) = scan[data] /\ ScansFor(scan, d)
<1> DEFINE D == Seq(Data)
           same(x) == Same(x, d)
           stops == {s \in D : s = <<>> \/ (same(Head(s)) /\ Len(s) = 1)}
           ends == [s \in D |-> <<>>]
           succ == [s \in D |-> IF s \in stops THEN s ELSE
                        IF ~same(Head(s)) THEN Tail(s) ELSE SubSeq(s, 3, Len(s))]
           first(s) == IF ~same(Head(s)) THEN <<Head(s)>> ELSE <<s[2]>>
           makes == [s \in D |-> [x \in D |-> IF s \in stops THEN x ELSE first(s) \o x]]
           measure == [s \in D |-> Len(s)]
           Scans(g) == g = [s \in D |->
               IF s = <<>> THEN s
               ELSE IF ~same(Head(s)) THEN <<Head(s)>> \o g[Tail(s)]
               ELSE IF Len(s) = 1 THEN <<>> ELSE <<s[2]>> \o g[SubSeq(s, 3, Len(s))]]
           scan == CHOOSE g : Scans(g)
<1>1. TakeAllOf(data, d) = scan[data]
  BY DEF TakeAllOf
<1> HIDE DEF same
<1>2. \A s \in D : Len(s) \in Nat /\ (s = <<>> => Len(s) = 0) /\ (s # <<>> => Len(s) >= 1)
  BY EmptySeq, LenProperties
<1>one. \A x \in Data : <<x>> \in D /\ Len(<<x>>) = 1
  OBVIOUS
<1>ends. \A s \in D : s \in stops <=> s = <<>> \/ (same(Head(s)) /\ Len(s) = 1)
  OBVIOUS
<1>goes. \A s \in D : s \notin stops =>
          /\ ~same(Head(s)) => succ[s] = Tail(s) /\ first(s) = <<Head(s)>>
          /\ same(Head(s)) => succ[s] = SubSeq(s, 3, Len(s)) /\ first(s) = <<s[2]>>
  OBVIOUS
<1>3. ASSUME NEW s \in D, s \notin stops
      PROVE  succ[s] \in D /\ Len(succ[s]) < Len(s) /\ first(s) \in D /\ Len(first(s)) = 1
  <2> HIDE DEF stops, succ, first
  <2>1. s # <<>> /\ Len(s) \in Nat /\ Len(s) >= 1
    BY <1>2, <1>3, <1>ends
  <2>2. CASE ~same(Head(s))
    <3>1. Head(s) \in Data /\ Tail(s) \in D /\ Len(Tail(s)) = Len(s) - 1
      BY <2>1, HeadTailProperties
    <3>2. succ[s] = Tail(s) /\ first(s) = <<Head(s)>>
      BY <1>3, <1>goes, <2>2
    <3> HIDE DEF D
    <3> QED
      BY <1>one, <2>1, <3>1, <3>2
  <2>3. CASE same(Head(s))
    <3>5. Len(s) # 1
      <4> HIDE DEF D
      <4> QED
        BY <1>3, <1>ends, <2>3
    <3>1. Len(s) >= 2
      <4> DEFINE b == Len(s)
      <4>1. b \in Nat /\ b >= 1 /\ b # 1
        BY <2>1, <3>5
      <4> HIDE DEF b
      <4>2. b >= 2
        BY <4>1
      <4> QED
        BY <4>2 DEF b
    <3>2. SubSeq(s, 3, Len(s)) \in D /\ Len(SubSeq(s, 3, Len(s))) = Len(s) + 1 - 3
      <4> DEFINE b == Len(s)
      <4>1. b \in Int /\ 3 <= b + 1 /\ b <= Len(s) /\ 3 \in Int /\ 1 <= 3
        BY <2>1, <3>1
      <4>2. s \in Seq(Data)
        OBVIOUS
      <4> HIDE DEF b
      <4>3. SubSeq(s, 3, b) \in Seq(Data) /\ Len(SubSeq(s, 3, b)) = b + 1 - 3
        BY <4>1, <4>2, PartOf
      <4> QED
        BY <4>3 DEF b
    <3>3. s[2] \in Data
      BY <2>1, <3>1, ElementOfSeq
    <3>4. succ[s] = SubSeq(s, 3, Len(s)) /\ first(s) = <<s[2]>>
      BY <1>3, <1>goes, <2>3
    <3> HIDE DEF D
    <3> QED
      BY <1>one, <2>1, <3>2, <3>3, <3>4
  <2> QED
    BY <2>2, <2>3
<1>4. Measured(D, D, stops, ends, succ, makes, measure)
  <2>1. ends \in [D -> D] /\ measure \in [D -> Nat]
    BY <1>2
  <2>2. succ \in [D -> D]
    <3>1. \A s \in D : succ[s] \in D
      BY <1>3
    <3> QED
      BY <3>1
  <2>3. \A s \in D : s \notin stops => measure[succ[s]] < measure[s]
    BY <1>3
  <2>4. makes \in [D -> [D -> D]]
    <3>1. ASSUME NEW s \in D, NEW x \in D
          PROVE  (IF s \in stops THEN x ELSE first(s) \o x) \in D
      BY <1>3, ConcatProperties
    <3> HIDE DEF D, first, stops
    <3> QED
      BY <3>1
  <2> HIDE DEF D, stops, ends, succ, makes, measure
  <2> QED
    BY <2>1, <2>2, <2>3, <2>4 DEF Measured
<1>5. PICK g : Recurses(D, D, stops, ends, succ, makes, g)
  <2> HIDE DEF D, stops, ends, succ, makes, measure
  <2> QED
    BY <1>4, MeasuredRecursion
<1>6. g \in [D -> D] /\ \A s \in D :
         g[s] = IF s \in stops THEN <<>> ELSE first(s) \o g[succ[s]]
  <2>1. g \in [D -> D]
    BY <1>5 DEF Recurses
  <2>2. ASSUME NEW s \in D PROVE g[s] = IF s \in stops THEN <<>> ELSE first(s) \o g[succ[s]]
    <3>1. g[s] = IF s \in stops THEN ends[s] ELSE makes[s][g[succ[s]]]
      BY <1>5 DEF Recurses
    <3>2. s \notin stops => g[succ[s]] \in D
      BY <1>3, <2>1
    <3> QED
      BY <3>1, <3>2
  <2> QED
    BY <2>1, <2>2
<1>7. Scans(g)
  <2>1. ASSUME NEW s \in D
        PROVE  g[s] = IF s = <<>> THEN s
               ELSE IF ~same(Head(s)) THEN <<Head(s)>> \o g[Tail(s)]
               ELSE IF Len(s) = 1 THEN <<>> ELSE <<s[2]>> \o g[SubSeq(s, 3, Len(s))]
    BY <1>6
  <2> QED
    BY <1>6, <2>1
<1>8. Scans(scan)
  <2> HIDE DEF Scans
  <2> QED
    BY <1>7
<1>9. \A s \in D : scan[s] = IF s \in stops THEN <<>> ELSE first(s) \o scan[succ[s]]
  <2>1. \A s \in D : scan[s] = IF s = <<>> THEN s
               ELSE IF ~same(Head(s)) THEN <<Head(s)>> \o scan[Tail(s)]
               ELSE IF Len(s) = 1 THEN <<>> ELSE <<s[2]>> \o scan[SubSeq(s, 3, Len(s))]
    <3> HIDE DEF scan
    <3> QED
      BY <1>8
  <2> HIDE DEF scan
  <2>2. ASSUME NEW s \in D
        PROVE  scan[s] = IF s \in stops THEN <<>> ELSE first(s) \o scan[succ[s]]
    <3> HIDE DEF stops, first, succ
    <3>1. CASE s \in stops
      BY <1>ends, <2>1, <3>1
    <3>2. CASE s \notin stops /\ ~same(Head(s))
      BY <1>ends, <1>goes, <2>1, <3>2
    <3>3. CASE s \notin stops /\ same(Head(s))
      BY <1>ends, <1>goes, <2>1, <3>3
    <3> QED
      BY <3>1, <3>2, <3>3
  <2> HIDE DEF D, stops, first, succ
  <2> QED
    BY <2>2
<1> HIDE DEF scan, stops, succ, first, ends, makes, measure
<1> DEFINE S == {k \in Nat : \A s \in D : Len(s) <= k => scan[s] \in D /\ Len(scan[s]) <= Len(s)}
<1>10. ASSUME NEW s \in D, \A t \in D : Len(t) < Len(s) => scan[t] \in D /\ Len(scan[t]) <= Len(t)
       PROVE  scan[s] \in D /\ Len(scan[s]) <= Len(s)
  <2>1. CASE s \in stops
    <3>1. scan[s] = <<>>
      BY <1>9, <2>1
    <3>2. <<>> \in D /\ Len(<<>>) = 0
      BY EmptySeq
    <3> HIDE DEF D
    <3> QED
      BY <1>2, <3>1, <3>2
  <2>2. CASE s \notin stops
    <3>1. scan[succ[s]] \in D /\ Len(scan[succ[s]]) <= Len(succ[s])
      BY <1>3, <1>10, <2>2
    <3>2. first(s) \o scan[succ[s]] \in D /\ Len(first(s) \o scan[succ[s]]) = 1 + Len(scan[succ[s]])
      <4> DEFINE x == first(s)
                 y == scan[succ[s]]
      <4>1. x \in Seq(Data) /\ Len(x) = 1 /\ y \in Seq(Data)
        BY <1>3, <2>2, <3>1
      <4> HIDE DEF x, y
      <4>2. x \o y \in Seq(Data) /\ Len(x \o y) = Len(x) + Len(y)
        BY <4>1, ConcatProperties
      <4> QED
        BY <4>1, <4>2 DEF x, y
    <3>3. Len(s) \in Nat /\ Len(succ[s]) \in Nat /\ Len(scan[succ[s]]) \in Nat
      BY <1>2, <1>3, <2>2, <3>1
    <3>4. Len(succ[s]) < Len(s) /\ scan[s] = first(s) \o scan[succ[s]]
      BY <1>3, <1>9, <2>2
    <3> HIDE DEF D
    <3> QED
      BY <3>1, <3>2, <3>3, <3>4
  <2> QED
    BY <2>1, <2>2
<1>11. 0 \in S /\ \A k \in Nat : k \in S => k + 1 \in S
  <2> HIDE DEF D
  <2>1. 0 \in S
    BY <1>2, <1>10
  <2>2. ASSUME NEW k \in Nat, k \in S, NEW s \in D, Len(s) <= k + 1
        PROVE  scan[s] \in D /\ Len(scan[s]) <= Len(s)
    <3>1. \A t \in D : Len(t) < Len(s) => scan[t] \in D /\ Len(scan[t]) <= Len(t)
      BY <1>2, <2>2
    <3> QED
      BY <1>10, <3>1
  <2> QED
    BY <2>1, <2>2
<1> HIDE DEF S
<1>12. Nat \subseteq S
  BY <1>11, NumberInduction
<1>13. \A s \in D : scan[s] \in D /\ Len(scan[s]) <= Len(s)
  BY <1>2, <1>12 DEF S
<1> USE DEF scan
<1>14. scan = [s \in D |->
               IF s = <<>> THEN s
               ELSE IF ~same(Head(s)) THEN <<Head(s)>> \o scan[Tail(s)]
               ELSE IF Len(s) = 1 THEN <<>> ELSE <<s[2]>> \o scan[SubSeq(s, 3, Len(s))]]
  <2> HIDE DEF scan
  <2> QED
    BY <1>8
<1> HIDE DEF scan
<1>15. scan \in [D -> D]
  BY <1>13, <1>14
<1>16. \A s \in D : scan[s] =
          IF s = <<>> THEN s
          ELSE IF ~same(Head(s)) THEN <<Head(s)>> \o scan[Tail(s)]
          ELSE IF Len(s) = 1 THEN <<>> ELSE <<s[2]>> \o scan[SubSeq(s, 3, Len(s))]
  BY <1>14
<1> QED
  BY <1>1, <1>13, <1>15, <1>16 DEF same, ScansFor

LEMMA TakeAllShrinks ==
  ASSUME NEW data \in Seq(Data), NEW d
  PROVE  TakeAllOf(data, d) \in Seq(Data) /\ Len(TakeAllOf(data, d)) <= Len(data)
<1>1. PICK scan \in [Seq(Data) -> Seq(Data)] :
         TakeAllOf(data, d) = scan[data] /\ ScansFor(scan, d)
  BY TakeAllScan
<1>2. \A s \in Seq(Data) : Len(scan[s]) <= Len(s)
  BY <1>1 DEF ScansFor
<1> QED
  BY <1>1, <1>2

\* A match stays just where the element before it has been taken.
Stay(data, d, kept) ==
    /\ kept \subseteq DOMAIN data
    /\ \A i \in DOMAIN data :
          /\ ~Same(data[i], d) => i \in kept
          /\ Same(data[i], d) =>
                (i \in kept <=> i # 1 /\ Same(data[i - 1], d) /\ i - 1 \notin kept)

\* The elements of s are those of data whose places from i on are kept.
Leaves(data, kept, i, s) ==
    /\ Len(s) = Cardinality(Between(kept, i, Len(data)))
    /\ \A k \in kept : i <= k => s[Cardinality(Between(kept, i, k))] = data[k]

\* The first element that stays, and behind it what the rest leaves.
LEMMA FirstLeft ==
  ASSUME NEW data \in Seq(Data), NEW kept \in SUBSET (1..Len(data)),
         NEW i \in Nat, NEW p \in kept, i <= p, \A j \in kept : i <= j => p <= j,
         NEW s \in Seq(Data), Leaves(data, kept, p + 1, s)
  PROVE  Leaves(data, kept, i, <<data[p]>> \o s)
<1> DEFINE N == Len(data)
           count(k) == Cardinality(Between(kept, i, k))
           rest(k) == Cardinality(Between(kept, p + 1, k))
           t == <<data[p]>> \o s
<1>1. N \in Nat /\ p \in 1..N /\ kept \subseteq Int /\ IsFiniteSet(kept)
  <2>1. N \in Nat
    BY LenProperties
  <2> HIDE DEF N
  <2>2. kept \in SUBSET (1..N)
    BY DEF N
  <2>3. IsFiniteSet(1..N)
    BY <2>1, FS_Interval
  <2>4. IsFiniteSet(kept)
    BY <2>2, <2>3, FS_Subset
  <2> QED
    BY <2>1, <2>2, <2>4
<1>2. data[p] \in Data
  BY <1>1, ElementOfSeq
<1>3. /\ <<data[p]>> \in Seq(Data) /\ Len(<<data[p]>>) = 1 /\ <<data[p]>>[1] = data[p]
  BY <1>2
<1>4. /\ t \in Seq(Data) /\ Len(t) = 1 + Len(s) /\ Len(s) \in Nat
      /\ \A j \in 1..1 + Len(s) : t[j] = IF j <= 1 THEN data[p] ELSE s[j - 1]
  <2> DEFINE one == <<data[p]>>
  <2>1. one \in Seq(Data) /\ Len(one) = 1 /\ one[1] = data[p]
    BY <1>3
  <2> HIDE DEF one
  <2>2. /\ one \o s \in Seq(Data) /\ Len(one \o s) = 1 + Len(s)
        /\ \A j \in 1..1 + Len(s) : (one \o s)[j] = IF j <= 1 THEN one[j] ELSE s[j - 1]
    <3>1. /\ one \o s \in Seq(Data) /\ Len(one \o s) = Len(one) + Len(s)
          /\ \A j \in 1..Len(one) + Len(s) :
                (one \o s)[j] = IF j <= Len(one) THEN one[j] ELSE s[j - Len(one)]
      BY <2>1, ConcatProperties
    <3> QED
      BY <2>1, <3>1
  <2>3. Len(s) \in Nat
    BY LenProperties
  <2>4. \A j \in 1..1 + Len(s) : (one \o s)[j] = IF j <= 1 THEN data[p] ELSE s[j - 1]
    BY <2>1, <2>2, <2>3
  <2> QED
    BY <2>2, <2>3, <2>4 DEF one
<1>5. \A k \in kept : i <= k => p <= k /\ k \in Int /\ k <= N
  BY <1>1
<1>6. ASSUME NEW k \in Int, p <= k PROVE rest(k) \in Nat /\ count(k) = rest(k) + 1
  <2>1. i \in Int /\ p \in kept /\ i <= p /\ p <= k /\ \A j \in kept : i <= j => p <= j
    BY <1>6
  <2> QED
    BY <1>1, <2>1, OneMore
<1>7. Len(s) = rest(N) /\ \A k \in kept : p + 1 <= k => s[rest(k)] = data[k]
  BY DEF Leaves
<1>8. Len(t) = count(N)
  BY <1>1, <1>4, <1>6, <1>7
<1>9. \A k \in kept : k > p => rest(k) \in 1..Len(s)
  <2> SUFFICES ASSUME NEW k \in kept, k > p PROVE rest(k) \in 1..rest(N)
    BY <1>7
  <2>1. k \in Between(kept, p + 1, k) /\ k \in Int /\ k <= N
    <3>1. k \in 1..N
      OBVIOUS
    <3> HIDE DEF N
    <3> QED
      BY <1>1, <3>1 DEF Between
  <2>2. Between(kept, p + 1, k) \subseteq Between(kept, p + 1, N)
    <3>1. \A j \in kept : j \in Int
      BY <1>1
    <3> HIDE DEF N
    <3>2. \A j \in kept : p + 1 <= j /\ j <= k => j <= N
      BY <1>1, <2>1, <3>1
    <3> QED
      BY <3>2 DEF Between
  <2> DEFINE A == Between(kept, p + 1, k)
             B == Between(kept, p + 1, N)
  <2>3. B \in SUBSET kept /\ A \in SUBSET B /\ k \in A
    BY <2>1, <2>2 DEF Between
  <2> HIDE DEF A, B
  <2>5. IsFiniteSet(A) /\ IsFiniteSet(B)
    BY <1>1, <2>3, FS_Subset
  <2>6. Cardinality(A) \in Nat /\ Cardinality(B) \in Nat
    BY <2>5, FS_CardinalityType
  <2>7. Cardinality(A) <= Cardinality(B) /\ Cardinality(A) # 0
    BY <2>3, <2>5, FS_Subset, FS_EmptySet
  <2>4. rest(k) \in Nat /\ rest(N) \in Nat /\ rest(k) <= rest(N) /\ rest(k) # 0
    BY <2>6, <2>7 DEF A, B
  <2> HIDE DEF rest
  <2> QED
    BY <2>4
<1>10. rest(p) = 0
  <2>1. \A j \in kept : j \in Int
    BY <1>1
  <2> HIDE DEF N
  <2>2. \A j \in kept : ~(p + 1 <= j /\ j <= p)
    BY <1>1, <2>1
  <2>3. Between(kept, p + 1, p) = {}
    BY <2>2 DEF Between
  <2> QED
    BY <2>3, FS_EmptySet
<1> HIDE DEF t, rest, count, N
<1>11. ASSUME NEW k \in kept, i <= k PROVE t[count(k)] = data[k]
  <2>1. p <= k /\ k \in Int /\ p \in Int
    BY <1>1, <1>5, <1>11
  <2>2. CASE k = p
    BY <1>1, <1>4, <1>6, <1>10, <2>1, <2>2
  <2>3. CASE k > p
    <3>1. rest(k) \in 1..Len(s) /\ count(k) = rest(k) + 1 /\ s[rest(k)] = data[k]
      BY <1>6, <1>7, <1>9, <2>1, <2>3
    <3> QED
      BY <1>4, <3>1
  <2> QED
    BY <2>1, <2>2, <2>3
<1> QED
  BY <1>8, <1>11 DEF Leaves, t, count, N
\* vector_take_all() leaves what stays by that rule.
LEMMA ScanLeaves ==
  ASSUME NEW data \in Seq(Data), NEW d, NEW kept, Stay(data, d, kept)
  PROVE  Leaves(data, kept, 1, TakeAllOf(data, d))
<1> DEFINE N == Len(data)
           same(i) == Same(data[i], d)
           part(i) == SubSeq(data, i, N)
           starts(i) == i \in 1..N + 1 /\ (i \in kept => ~same(i))
<1>1. N \in Nat /\ DOMAIN data = 1..N /\ kept \in SUBSET (1..N)
  <2>1. N \in Nat /\ DOMAIN data = 1..N
    BY LenProperties
  <2>2. kept \subseteq DOMAIN data
    BY DEF Stay
  <2> HIDE DEF N
  <2> QED
    BY <2>1, <2>2
<1>2. PICK scan \in [Seq(Data) -> Seq(Data)] :
         TakeAllOf(data, d) = scan[data] /\ ScansFor(scan, d)
  BY TakeAllScan
<1>rule. \A s \in Seq(Data) :
            scan[s] = IF s = <<>> THEN s
                      ELSE IF ~Same(Head(s), d) THEN <<Head(s)>> \o scan[Tail(s)]
                      ELSE IF Len(s) = 1 THEN <<>> ELSE <<s[2]>> \o scan[SubSeq(s, 3, Len(s))]
  BY <1>2 DEF ScansFor
<1>3. ASSUME NEW i \in Nat, 1 <= i, i <= N + 1
      PROVE  /\ part(i) \in Seq(Data) /\ Len(part(i)) = N + 1 - i
             /\ \A j \in Nat : 1 <= j /\ j <= N + 1 - i => part(i)[j] = data[i + j - 1]
  BY <1>1, <1>3, PartOf
<1>4. ASSUME NEW i \in 1..N
      PROVE  part(i) # <<>> /\ Head(part(i)) = data[i] /\ Tail(part(i)) = part(i + 1)
  <2>1. i \in Nat /\ 1 <= i /\ i <= N + 1 /\ N \in i..N /\ N + 1 - i > 0
    BY <1>1
  <2>2. Len(part(i)) > 0
    BY <1>3, <2>1
  <2>3. part(i) # <<>>
    <3> HIDE DEF part, N
    <3> QED
      BY <2>2
  <2>4. Head(part(i)) = data[i] /\ Tail(part(i)) = part(i + 1)
    BY <2>1, HeadTailOfSubSeq
  <2> QED
    BY <2>3, <2>4
<1>5. ASSUME NEW i \in 1..N, ~same(i)
      PROVE  scan[part(i)] = <<data[i]>> \o scan[part(i + 1)]
  <2>1. part(i) \in Seq(Data)
    BY <1>1, <1>3
  <2> HIDE DEF part
  <2> QED
    BY <1>rule, <1>4, <1>5, <2>1
<1>6. ASSUME NEW i \in 1..N, same(i), i < N
      PROVE  scan[part(i)] = <<data[i + 1]>> \o scan[part(i + 2)]
  <2> DEFINE s == part(i)
             b == Len(s)
             t == SubSeq(s, 3, b)
             u == part(i + 2)
  <2>1. /\ s \in Seq(Data) /\ b = N + 1 - i /\ b \in Nat /\ b >= 2
        /\ \A j \in Nat : 1 <= j /\ j <= b => s[j] = data[i + j - 1]
    BY <1>1, <1>3, <1>6
  <2>2. /\ u \in Seq(Data) /\ Len(u) = N + 1 - (i + 2)
        /\ \A j \in Nat : 1 <= j /\ j <= N + 1 - (i + 2) => u[j] = data[i + 2 + j - 1]
    <3> DEFINE q == i + 2
    <3>1. q \in Nat /\ 1 <= q /\ q <= N + 1
      BY <1>1, <1>6
    <3> HIDE DEF q, N
    <3>2. /\ part(q) \in Seq(Data) /\ Len(part(q)) = N + 1 - q
          /\ \A j \in Nat : 1 <= j /\ j <= N + 1 - q => part(q)[j] = data[q + j - 1]
      BY <1>3, <3>1
    <3> QED
      BY <3>2 DEF q
  <2>3. s # <<>> /\ Head(s) = data[i]
    BY <1>4
  <2> HIDE DEF s, u
  <2>4. b \in Int /\ 3 \in Int /\ 1 <= 3 /\ 3 <= b + 1 /\ b <= Len(s)
    BY <2>1
  <2> HIDE DEF b
  <2>5. /\ t \in Seq(Data) /\ Len(t) = b + 1 - 3
        /\ \A j \in Nat : 1 <= j /\ j <= b + 1 - 3 => t[j] = s[3 + j - 1]
    BY <2>1, <2>4, PartOf
  <2> HIDE DEF t
  <2>6. Len(t) = Len(u) /\ Len(t) \in Nat
    BY <1>1, <2>1, <2>2, <2>4, <2>5
  <2>7. ASSUME NEW j \in 1..Len(t) PROVE t[j] = u[j]
    <3>1. j \in Nat /\ 1 <= j /\ j <= b + 1 - 3 /\ 3 + j - 1 \in Nat /\ 3 + j - 1 <= b
      BY <2>1, <2>5, <2>6
    <3>2. t[j] = s[3 + j - 1] /\ s[3 + j - 1] = data[i + (3 + j - 1) - 1]
      BY <2>1, <2>5, <3>1
    <3>3. u[j] = data[i + 2 + j - 1] /\ i + 2 + j - 1 = i + (3 + j - 1) - 1
      BY <1>1, <2>1, <2>2, <3>1
    <3> QED
      BY <3>2, <3>3
  <2>8. t = u
    BY <2>2, <2>5, <2>6, <2>7, SeqEqual
  <2>9. s[2] = data[i + 1]
    <3>1. 2 \in Nat /\ i + 2 - 1 = i + 1
      BY <1>1
    <3> QED
      BY <2>1, <3>1
  <2>10. scan[s] = <<s[2]>> \o scan[t]
    <3>1. b # 1 /\ b = Len(s)
      BY <2>1 DEF b
    <3> QED
      BY <1>rule, <1>6, <2>1, <2>3, <3>1 DEF t
  <2> QED
    BY <2>8, <2>9, <2>10 DEF s, u
<1>7. ASSUME NEW i, starts(i), \A j \in i + 1..N + 1 : starts(j) => Leaves(data, kept, j, scan[part(j)])
      PROVE  Leaves(data, kept, i, scan[part(i)])
  <2>1. i \in 1..N + 1 /\ i \in Nat /\ \A j \in kept : j \in 1..N
    BY <1>1, <1>7
  <2>2. \A j \in 1..N + 1 : scan[part(j)] \in Seq(Data)
    <3>1. \A j \in 1..N + 1 : part(j) \in Seq(Data)
      BY <1>1, <1>3
    <3> HIDE DEF part
    <3> QED
      BY <1>2, <3>1
  <2>rule. \A j \in 1..N :
              /\ ~same(j) => j \in kept
              /\ same(j) => (j \in kept <=> j # 1 /\ same(j - 1) /\ j - 1 \notin kept)
    BY <1>1 DEF Stay
  <2>3. CASE i = N + 1 \/ (i = N /\ i \notin kept)
    <3>1. scan[part(i)] = <<>>
      <4>1. CASE i = N + 1
        <5>1. part(i) = <<>>
          BY <1>1, <4>1, SubSeqEmpty
        <5> HIDE DEF part
        <5> QED
          BY <1>rule, <2>1, <5>1, EmptySeq
      <4>2. CASE i = N /\ i \notin kept
        <5>1. i \in 1..N /\ same(i)
          BY <1>1, <2>1, <2>rule, <4>2
        <5>2. Len(part(i)) = 1 /\ part(i) \in Seq(Data)
          BY <1>1, <1>3, <2>1, <4>2
        <5>3. part(i) # <<>> /\ Head(part(i)) = data[i]
          BY <1>4, <5>1
        <5> HIDE DEF part
        <5> QED
          BY <1>rule, <5>1, <5>2, <5>3
      <4> QED
        BY <2>3, <4>1, <4>2
    <3>2. \A k \in kept : ~(i <= k)
      <4> HIDE DEF N
      <4> QED
        BY <1>1, <2>1, <2>3
    <3>3. Between(kept, i, N) = {}
      BY <3>2 DEF Between
    <3> QED
      BY <3>1, <3>2, <3>3, FS_EmptySet, EmptySeq DEF Leaves
  <2>4. CASE i <= N /\ ~same(i)
    <3>1. i \in kept /\ i \in 1..N
      BY <1>1, <2>1, <2>4, <2>rule
    <3>2. starts(i + 1)
      <4>1. i + 1 \in 1..N + 1 /\ (i + 1) - 1 = i
        BY <1>1, <2>1, <2>4
      <4>2. i + 1 \in kept => ~same(i + 1)
        <5> SUFFICES ASSUME i + 1 \in kept, same(i + 1) PROVE FALSE
          OBVIOUS
        <5>1. i + 1 \in 1..N
          BY <2>1
        <5>2. same((i + 1) - 1)
          BY <2>rule, <5>1
        <5> QED
          BY <2>4, <4>1, <5>2
      <4> QED
        BY <4>1, <4>2
    <3>3. Leaves(data, kept, i + 1, scan[part(i + 1)]) /\ scan[part(i + 1)] \in Seq(Data)
      <4>1. i + 1 \in i + 1..N + 1
        BY <1>1, <2>1, <2>4
      <4> HIDE DEF starts
      <4> QED
        BY <1>7, <2>1, <2>2, <3>2, <4>1 DEF starts
    <3>4. scan[part(i)] = <<data[i]>> \o scan[part(i + 1)]
      BY <1>5, <2>4, <3>1
    <3>5. i <= i /\ \A j \in kept : i <= j => i <= j
      BY <2>1
    <3> DEFINE x == scan[part(i + 1)]
    <3>6. x \in Seq(Data) /\ Leaves(data, kept, i + 1, x)
      BY <3>3
    <3> HIDE DEF x
    <3>7. Leaves(data, kept, i, <<data[i]>> \o x)
      BY <1>1, <2>1, <3>1, <3>5, <3>6, FirstLeft
    <3> QED
      BY <3>4, <3>7 DEF x
  <2>5. CASE i < N /\ same(i)
    <3>1. i \notin kept /\ i + 1 \in kept /\ i \in 1..N /\ i + 1 \in 1..N /\ (i + 1) - 1 = i
      <4>1. i \in 1..N /\ i + 1 \in 1..N /\ (i + 1) - 1 = i /\ i + 1 # 1
        BY <1>1, <2>1, <2>5
      <4>2. i \notin kept
        BY <1>7, <2>5
      <4>3. i + 1 \in kept
        BY <2>5, <2>rule, <4>1, <4>2
      <4> QED
        BY <4>1, <4>2, <4>3
    <3>2. starts(i + 2)
      <4>1. i + 2 \in 1..N + 1 /\ (i + 2) - 1 = i + 1
        BY <1>1, <2>1, <2>5
      <4>2. i + 2 \in kept => ~same(i + 2)
        <5> SUFFICES ASSUME i + 2 \in kept, same(i + 2) PROVE FALSE
          OBVIOUS
        <5>1. i + 2 \in 1..N
          BY <2>1
        <5>2. (i + 2) - 1 \notin kept
          BY <2>rule, <5>1
        <5> QED
          BY <3>1, <4>1, <5>2
      <4> QED
        BY <4>1, <4>2
    <3>3. Leaves(data, kept, i + 2, scan[part(i + 2)]) /\ scan[part(i + 2)] \in Seq(Data)
      <4>1. i + 2 \in i + 1..N + 1 /\ i + 2 \in 1..N + 1
        BY <1>1, <2>1, <2>5
      <4> HIDE DEF starts
      <4> QED
        BY <1>7, <2>2, <3>2, <4>1
    <3>4. scan[part(i)] = <<data[i + 1]>> \o scan[part(i + 2)]
      BY <1>6, <2>5, <3>1
    <3>5. i <= i + 1 /\ \A j \in kept : i <= j => i + 1 <= j
      <4>1. \A j \in kept : j \in Int /\ j # i
        BY <2>1, <3>1
      <4> QED
        BY <2>1, <4>1
    <3> DEFINE x == scan[part(i + 2)]
               p == i + 1
    <3>6. x \in Seq(Data) /\ Leaves(data, kept, p + 1, x)
      <4>1. p + 1 = i + 2
        BY <2>1
      <4> HIDE DEF p
      <4> QED
        BY <3>3, <4>1
    <3>7. p \in kept /\ i <= p /\ \A j \in kept : i <= j => p <= j
      BY <3>1, <3>5
    <3> HIDE DEF x, p
    <3>8. Leaves(data, kept, i, <<data[p]>> \o x)
      BY <1>1, <2>1, <3>6, <3>7, FirstLeft
    <3> QED
      BY <3>4, <3>8 DEF x, p
  <2> QED
    <3>2. i \in kept => ~same(i)
      BY <1>7
    <3> HIDE DEF N
    <3>1. i = N + 1 \/ i = N \/ i < N
      BY <1>1, <2>1
    <3>3. i = N => i <= N
      BY <1>1
    <3>4. i < N => i <= N
      BY <1>1, <2>1
    <3> QED
      BY <2>3, <2>4, <2>5, <3>1, <3>2, <3>3, <3>4
<1> DEFINE S == {m \in Nat : \A i \in 1..N + 1 :
                    N + 1 - i <= m /\ starts(i) => Leaves(data, kept, i, scan[part(i)])}
<1>8. 0 \in S
  <2>1. ASSUME NEW i \in 1..N + 1, N + 1 - i <= 0, starts(i)
        PROVE  Leaves(data, kept, i, scan[part(i)])
    <3>1. \A j \in i + 1..N + 1 : FALSE
      BY <1>1, <2>1
    <3> HIDE DEF part, starts
    <3> QED
      BY <1>7, <2>1, <3>1
  <2> HIDE DEF part, starts
  <2> QED
    BY <2>1
<1>9. ASSUME NEW m \in Nat, m \in S PROVE m + 1 \in S
  <2>1. ASSUME NEW i \in 1..N + 1, N + 1 - i <= m + 1, starts(i)
        PROVE  Leaves(data, kept, i, scan[part(i)])
    <3>1. \A j \in i + 1..N + 1 : j \in 1..N + 1 /\ N + 1 - j <= m
      BY <1>1, <2>1
    <3> HIDE DEF part, starts
    <3>2. \A j \in i + 1..N + 1 : starts(j) => Leaves(data, kept, j, scan[part(j)])
      BY <1>9, <3>1
    <3> QED
      BY <1>7, <2>1, <3>2
  <2> HIDE DEF part, starts
  <2> QED
    BY <2>1
<1> HIDE DEF S
<1>10. N \in S
  BY <1>1, <1>8, <1>9, NumberInduction
<1>11. 1 \in 1..N + 1 /\ N + 1 - 1 <= N /\ part(1) = data
  BY <1>1, SubSeqFull
<1>12. starts(1)
  <2>1. 1 \in kept => 1 \in 1..N
    BY <1>1
  <2> QED
    BY <1>1, <1>11, <2>1 DEF Stay
<1> HIDE DEF part, starts
<1>13. Leaves(data, kept, 1, scan[part(1)])
  BY <1>10, <1>11, <1>12 DEF S
<1> QED
  BY <1>2, <1>11, <1>13
\* Where it goes by rows of matches: every second one of a row stays.
LEMMA RowsStay ==
  ASSUME NEW data \in Seq(Data), NEW d
  PROVE  LET rowStart(i) == Max({j \in 1..i : j = 1 \/ ~Same(data[j - 1], d)})
         IN  Stay(data, d, {i \in DOMAIN data : Same(data[i], d) => (i - rowStart(i)) % 2 = 1})
<1> DEFINE N == Len(data)
           same(i) == Same(data[i], d)
           starts(i) == {j \in 1..i : j = 1 \/ ~same(j - 1)}
           rowStart(i) == Max(starts(i))
           kept == {i \in DOMAIN data : same(i) => (i - rowStart(i)) % 2 = 1}
<1>1. N \in Nat /\ DOMAIN data = 1..N
  BY LenProperties
<1> HIDE DEF N, same
<1>2. ASSUME NEW i \in 1..N PROVE rowStart(i) \in 1..i
  <2> DEFINE S == {i - j : j \in starts(i)}
  <2>1. i \in Nat /\ \A j \in starts(i) : j \in 1..i /\ j \in Int
    BY <1>1
  <2>2. 1 \in starts(i)
    BY <2>1
  <2> HIDE DEF starts
  <2>3. S \subseteq Nat /\ S # {}
    BY <2>1, <2>2
  <2>4. PICK x \in S : \A y \in S : x <= y
    <3> HIDE DEF S
    <3> QED
      BY <2>3, LeastNumber
  <2>5. PICK j \in starts(i) : x = i - j
    BY <2>4
  <2>6. \A k \in starts(i) : j >= k
    <3> TAKE k \in starts(i)
    <3>1. i - j <= i - k
      BY <2>4, <2>5
    <3> QED
      BY <2>1, <3>1
  <2>7. rowStart(i) \in starts(i)
    BY <2>6 DEF Max
  <2> QED
    BY <2>1, <2>7
<1>3. ASSUME NEW i \in 1..N, i = 1 \/ ~same(i - 1) PROVE rowStart(i) = i
  <2>1. i \in starts(i) /\ \A k \in starts(i) : i >= k /\ k \in Int
    BY <1>1, <1>3
  <2> HIDE DEF starts
  <2>2. \A j \in starts(i) : (\A k \in starts(i) : j >= k) => j = i
    <3> TAKE j \in starts(i)
    <3>1. (\A k \in starts(i) : j >= k) => j >= i
      BY <2>1
    <3> QED
      BY <1>1, <2>1, <3>1
  <2> QED
    BY <2>1, <2>2 DEF Max
<1>4. ASSUME NEW i \in 1..N, i # 1, same(i - 1) PROVE rowStart(i) = rowStart(i - 1)
  <2>1. starts(i) = starts(i - 1)
    <3>1. \A j : j \in 1..i <=> j \in 1..i - 1 \/ j = i
      BY <1>1, <1>4
    <3>2. i \notin starts(i)
      BY <1>4
    <3> QED
      BY <3>1, <3>2
  <2> QED
    BY <2>1
<1> HIDE DEF rowStart
<1>5. kept \subseteq DOMAIN data /\ \A i \in DOMAIN data : ~same(i) => i \in kept
  OBVIOUS
<1>6. ASSUME NEW i \in 1..N, same(i)
      PROVE  i \in kept <=> i # 1 /\ same(i - 1) /\ i - 1 \notin kept
  <2>1. i \in kept <=> (i - rowStart(i)) % 2 = 1
    BY <1>1, <1>6
  <2>2. CASE i = 1 \/ ~same(i - 1)
    <3>1. i - rowStart(i) = 0 /\ 0 % 2 # 1
      BY <1>1, <1>3, <2>2
    <3>2. i \notin kept
      BY <2>1, <3>1
    <3> HIDE DEF kept
    <3> QED
      BY <2>2, <3>2
  <2>3. CASE i # 1 /\ same(i - 1)
    <3> DEFINE x == i - 1 - rowStart(i - 1)
    <3>1. i - 1 \in 1..N
      BY <1>1, <2>3
    <3>2. rowStart(i - 1) \in 1..i - 1
      BY <1>2, <3>1
    <3>3. i - 1 \in kept <=> x % 2 = 1
      BY <1>1, <2>3, <3>1
    <3>4. x \in Nat /\ i - rowStart(i) = x + 1
      BY <1>1, <1>4, <2>3, <3>1, <3>2
    <3> HIDE DEF x, kept
    <3>5. (x + 1) % 2 = 1 <=> x % 2 # 1
      BY <3>4
    <3> QED
      BY <2>1, <2>3, <3>3, <3>4, <3>5
  <2> QED
    BY <2>2, <2>3
<1>7. Stay(data, d, kept)
  <2> HIDE DEF kept
  <2> QED
    BY <1>1, <1>5, <1>6 DEF Stay, same
<1> QED
  BY <1>7 DEF kept, rowStart, starts, same

\* What vector_take_all() leaves in a vector is a choice TakeAllTakes asks for.
LEMMA RowsLeft == VectorInv => TakeAllTakes
<1> SUFFICES ASSUME VectorInv, vec # None, NEW d \in Data
             PROVE  LET data == vec.data
                        left == TakeAllOf(data, d)
                        matches == Matches(data, d)
                    IN  \E stay \in SUBSET DOMAIN data :
                           /\ DOMAIN data \ matches \subseteq stay
                           /\ \A i \in stay \cap matches : i - 1 \in matches \ stay
                           /\ Len(left) = Cardinality(stay)
                           /\ \A i \in stay : left[Cardinality({j \in stay : j <= i})] = data[i]
  BY DEF TakeAllTakes
<1> DEFINE data == vec.data
           left == TakeAllOf(data, d)
           matches == Matches(data, d)
           rowStart(i) == Max({j \in 1..i : j = 1 \/ ~Same(data[j - 1], d)})
           kept == {i \in DOMAIN data : Same(data[i], d) => (i - rowStart(i)) % 2 = 1}
<1>1. data \in Seq(Data)
  BY DEF VectorInv, VectorTypes
<1>2. Stay(data, d, kept)
  <2> HIDE DEF data
  <2> QED
    BY <1>1, RowsStay
<1> HIDE DEF data, kept
<1>3. Leaves(data, kept, 1, left)
  BY <1>1, <1>2, ScanLeaves
<1>4. /\ Len(data) \in Nat /\ DOMAIN data = 1..Len(data)
      /\ \A j \in kept : j \in 1..Len(data)
  BY <1>1, <1>2, LenProperties DEF Stay
<1>5. Between(kept, 1, Len(data)) = kept
  BY <1>4 DEF Between
<1>6. \A k \in kept : 1 <= k /\ Between(kept, 1, k) = {j \in kept : j <= k}
  BY <1>4 DEF Between
<1>7. kept \in SUBSET DOMAIN data /\ DOMAIN data \ matches \subseteq kept
  BY <1>2 DEF Stay, Matches
<1>8. ASSUME NEW i \in kept \cap matches PROVE i - 1 \in matches \ kept
  <2>1. i \in DOMAIN data /\ Same(data[i], d)
    BY <1>8 DEF Matches
  <2>2. i # 1 /\ Same(data[i - 1], d) /\ i - 1 \notin kept
    BY <1>2, <1>8, <2>1 DEF Stay
  <2>3. i - 1 \in DOMAIN data
    BY <1>4, <2>1, <2>2
  <2> QED
    BY <2>2, <2>3 DEF Matches
<1> HIDE DEF left, matches
<1>9. /\ Len(left) = Cardinality(kept)
      /\ \A i \in kept : left[Cardinality({j \in kept : j <= i})] = data[i]
  BY <1>3, <1>5, <1>6 DEF Leaves
<1> QED
  BY <1>7, <1>8, <1>9 DEF data, left, matches

\* What is cut off leaves a part of the elements.
LEMMA CutFits ==
  ASSUME NEW data \in Seq(Data), NEW c \in Nat
  PROVE  /\ Cut(data, c) \in Seq(Data) /\ Len(Cut(data, c)) <= c
         /\ Len(data) <= c => Cut(data, c) = data
<1>1. Len(data) \in Nat
  BY LenProperties
<1>2. CASE c < Len(data)
  <2>1. c \in Int /\ 1 <= c + 1 /\ c <= Len(data) /\ 1 \in Int /\ 1 <= 1
    BY <1>1, <1>2
  <2>2. SubSeq(data, 1, c) \in Seq(Data) /\ Len(SubSeq(data, 1, c)) = c + 1 - 1
    BY <2>1, PartOf
  <2>3. Cut(data, c) = SubSeq(data, 1, c)
    BY <1>2 DEF Cut
  <2> DEFINE n == Len(data)
             t == SubSeq(data, 1, c)
  <2> HIDE DEF n, t
  <2>4. ~(n <= c) /\ c + 1 - 1 <= c
    BY <1>1, <1>2 DEF n
  <2> QED
    BY <2>2, <2>3, <2>4 DEF n, t
<1>3. CASE ~(c < Len(data))
  <2>1. Cut(data, c) = data
    BY <1>3 DEF Cut
  <2> QED
    BY <1>1, <1>3, <2>1
<1> QED
  BY <1>2, <1>3

\* A vector that holds "data" in an array of a legal size.
LEMMA VectorMade ==
  ASSUME NEW data \in Seq(Data), NEW c \in Nat, IsPower(c), VectorDefault <= c, c <= TopBit,
         Len(data) <= c, NEW b \in BOOLEAN, Fine',
         vec' = [data |-> data, capacity |-> c, compares |-> b]
  PROVE  VectorInv' /\ VectorStaysInside'
<1>1. vec' \in VectorTypes /\ vec'.data = data /\ vec'.capacity = c
  BY DEF VectorTypes
<1> QED
  BY <1>1 DEF VectorInv, VectorStaysInside, Fine

LEMMA VectorFields ==
  ASSUME VectorInv, vec # None
  PROVE  /\ vec = [data |-> vec.data, capacity |-> vec.capacity, compares |-> vec.compares]
         /\ vec.data \in Seq(Data) /\ Len(vec.data) \in Nat /\ Len(vec.data) <= vec.capacity
         /\ vec.capacity \in Nat /\ IsPower(vec.capacity)
         /\ VectorDefault <= vec.capacity /\ vec.capacity <= TopBit
         /\ vec.compares \in BOOLEAN
<1>1. vec.data \in Seq(Data)
  BY DEF VectorInv, VectorTypes
<1>2. Len(vec.data) \in Nat
  BY <1>1, LenProperties
<1> QED
  BY <1>1, <1>2 DEF VectorInv, VectorTypes

LEMMA ShiftedKeeps ==
  ASSUME VectorInv, vec # None, Fine, NEW data \in Seq(Data), NEW c \in Nat, IsPower(c),
         VectorDefault <= c, c <= TopBit, NEW i \in Nat, NEW d \in Data,
         Shifted(data, i, d, c),
         (i <= Len(data) /\ Len(data) < c) \/ Len(vec.data) = TopBit
  PROVE  VectorInv' /\ VectorStaysInside'
<1>1. Len(data) \in Nat
  BY LenProperties
<1>2. CASE i <= Len(data) /\ Len(data) < c
  <2> DEFINE new == InsertAt(data, i + 1, d)
  <2>1. i \in 0..Len(data)
    BY <1>1, <1>2
  <2>2. new \in Seq(Data) /\ Len(new) = Len(data) + 1
    BY <2>1, Inserted
  <2>3. vec' = [vec EXCEPT !.data = new, !.capacity = c] /\ Fine'
    BY <1>2 DEF Shifted, Returns, Fine
  <2> HIDE DEF new
  <2>4. vec' = [data |-> new, capacity |-> c, compares |-> vec.compares]
    BY <2>3, VectorFields
  <2>5. Len(new) <= c
    BY <1>1, <1>2, <2>2
  <2>6. vec.compares \in BOOLEAN
    BY VectorFields
  <2> QED
    BY <2>2, <2>3, <2>4, <2>5, <2>6, VectorMade
<1>3. CASE ~(i <= Len(data) /\ Len(data) < c)
  <2>1. vec' = vec /\ fault' = "vector_insert_at"
    BY <1>3 DEF Shifted, Stray
  <2>2. Len(vec.data) = TopBit
    BY <1>3
  <2> QED
    BY <2>1, <2>2 DEF VectorInv, VectorStaysInside
<1> QED
  BY <1>2, <1>3

LEMMA InsertAtKeeps ==
  ASSUME VectorInv, vec # None, Fine, NEW d \in Data, NEW i \in 0..Len(vec.data),
         VectorInsertAt(i, d)
  PROVE  VectorInv' /\ VectorStaysInside'
<1> DEFINE twice == Wrap(2 * vec.capacity)
           cut == Cut(vec.data, twice)
           c == vec.capacity
           n == Len(vec.data)
<1>1. /\ vec = [data |-> vec.data, capacity |-> c, compares |-> vec.compares]
      /\ vec.data \in Seq(Data) /\ n \in Nat /\ n <= c
      /\ c \in Nat /\ IsPower(c) /\ VectorDefault <= c /\ c <= TopBit
      /\ vec.compares \in BOOLEAN
  BY VectorFields
<1>2. CASE ~VectorFull /\ Shifted(vec.data, i, d, c)
  <2>1. n < c
    BY <1>1, <1>2 DEF VectorFull
  <2> HIDE DEF c, n
  <2>2. i \in Nat /\ i <= n
    BY <1>1 DEF n
  <2> QED
    BY <1>1, <1>2, <2>1, <2>2, ShiftedKeeps DEF n
<1>3. ASSUME VectorFull
      PROVE  \/ c < TopBit /\ n < twice /\ twice \in Nat /\ IsPower(twice) /\ twice <= TopBit
                /\ cut = vec.data
             \/ n = TopBit /\ c = TopBit /\ twice = 0
  <2>1. n = c
    BY <1>1, <1>3 DEF VectorFull
  <2>2. \/ c < TopBit /\ twice = 2 * c /\ IsPower(twice) /\ twice <= TopBit
        \/ c = TopBit /\ twice = 0
    BY <1>1, Doubles
  <2>3. c >= 1
    BY <1>1, PowersOfTwo
  <2> HIDE DEF twice, c, n
  <2>4. CASE c < TopBit /\ twice = 2 * c /\ IsPower(twice) /\ twice <= TopBit
    <3>1. twice \in Nat /\ n < twice /\ n <= twice
      BY <1>1, <2>1, <2>3, <2>4
    <3>2. cut = vec.data
      BY <1>1, <3>1, CutFits DEF n
    <3> QED
      BY <2>4, <3>1, <3>2
  <2> QED
    BY <2>1, <2>2, <2>4
<1>4. VectorFull => twice \in Nat /\ twice <= TopBit
  <2> HIDE DEF twice
  <2> QED
    BY <1>3, Limits
<1>5. VectorFull => cut \in Seq(Data) /\ Len(cut) <= twice /\ Len(cut) <= n
  <2> SUFFICES ASSUME VectorFull PROVE cut \in Seq(Data) /\ Len(cut) <= twice /\ Len(cut) <= n
    OBVIOUS
  <2>1. cut \in Seq(Data) /\ Len(cut) <= twice
    BY <1>1, <1>4, CutFits
  <2> HIDE DEF cut, twice, c, n
  <2>2. Len(cut) \in Nat
    BY <2>1, LenProperties
  <2> QED
    BY <1>1, <1>3, <2>1, <2>2 DEF n
<1>6. CASE VectorFull /\ Shifted(cut, i, d, NiceSize(twice, VectorDefault))
  <2> DEFINE nice == NiceSize(twice, VectorDefault)
  <2>1. /\ nice \in Nat /\ IsPower(nice) /\ twice <= nice
        /\ VectorDefault <= nice /\ nice <= TopBit
    BY <1>4, <1>6, VectorAssumption, NiceSizeFits
  <2>2. Shifted(cut, i, d, nice)
    BY <1>6
  <2> HIDE DEF nice, twice, cut, c, n
  <2>3. i \in Nat /\ i <= n
    BY <1>1 DEF n
  <2>4. (i <= Len(cut) /\ Len(cut) < nice) \/ n = TopBit
    <3>1. CASE c < TopBit /\ n < twice /\ twice \in Nat /\ cut = vec.data
      BY <1>1, <2>1, <2>3, <3>1 DEF n
    <3> QED
      BY <1>3, <1>6, <3>1
  <2> QED
    BY <1>5, <1>6, <2>1, <2>2, <2>3, <2>4, ShiftedKeeps DEF n
<1>7. CASE VectorFull /\ vec' = [vec EXCEPT !.data = cut] /\ Returns(Failed)
  <2> HIDE DEF twice, cut, c, n
  <2>1. vec' = [data |-> cut, capacity |-> c, compares |-> vec.compares]
    BY <1>1, <1>7 DEF c
  <2>2. cut \in Seq(Data) /\ Len(cut) \in Nat /\ Len(cut) <= c
    <3>1. cut \in Seq(Data) /\ Len(cut) <= n
      BY <1>5, <1>7
    <3>2. Len(cut) \in Nat
      BY <3>1, LenProperties
    <3> QED
      BY <1>1, <3>1, <3>2
  <2>3. Fine'
    BY <1>7 DEF Returns, Fine
  <2> QED
    BY <1>1, <2>1, <2>2, <2>3, VectorMade
<1> QED
  BY <1>2, <1>6, <1>7 DEF VectorInsertAt

\* A call that takes elements out, or changes their order, keeps the array.
LEMMA ShrinksKeeps ==
  ASSUME VectorInv, vec # None, Fine', NEW data \in Seq(Data), Len(data) <= Len(vec.data),
         vec' = [vec EXCEPT !.data = data]
  PROVE  VectorInv' /\ VectorStaysInside'
<1>1. vec' = [data |-> data, capacity |-> vec.capacity, compares |-> vec.compares]
  BY VectorFields
<1>2. Len(data) \in Nat
  BY LenProperties
<1>3. Len(data) <= vec.capacity
  BY <1>2, VectorFields
<1> QED
  BY <1>1, <1>3, VectorFields, VectorMade

LEMMA TakeAtKeeps ==
  ASSUME VectorInv, vec # None, Fine, NEW i \in 0..Len(vec.data) - 1, VectorTakeAt(i)
  PROVE  VectorInv' /\ VectorStaysInside'
<1> DEFINE new == RemoveAt(vec.data, i + 1)
           n == Len(vec.data)
<1>1. vec.data \in Seq(Data) /\ n \in Nat
  BY VectorFields
<1>2. i + 1 \in 1..n
  BY <1>1
<1>3. new \in Seq(Data) /\ Len(new) = n - 1
  BY <1>1, <1>2, RemovedOne
<1>4. vec' = [vec EXCEPT !.data = new] /\ Fine'
  BY DEF VectorTakeAt, Returns, Fine
<1> HIDE DEF new
<1>5. Len(new) <= n
  BY <1>1, <1>3
<1> QED
  BY <1>3, <1>4, <1>5, ShrinksKeeps

\* vector_index_of() finds an index of the vector.
LEMMA IndexOfFits ==
  ASSUME VectorInv, vec # None, NEW d, Matches(vec.data, d) # {}
  PROVE  IndexOf(vec.data, d) \in 0..Len(vec.data) - 1
<1> DEFINE T == Matches(vec.data, d)
           n == Len(vec.data)
<1>1. T \subseteq 1..n /\ n \in Nat
  <2>1. vec.data \in Seq(Data) /\ n \in Nat
    BY VectorFields
  <2>2. DOMAIN vec.data = 1..n
    BY <2>1, LenProperties
  <2> QED
    BY <2>1, <2>2 DEF Matches
<1>2. T # {} /\ IndexOf(vec.data, d) = Min(T) - 1
  BY DEF IndexOf
<1> HIDE DEF T, n
<1>3. T \subseteq Nat
  BY <1>1
<1>4. \E x \in T : \A y \in T : x <= y
  BY <1>2, <1>3, LeastNumber
<1> DEFINE i == Min(T)
<1>5. i \in T
  BY <1>4 DEF Min
<1>6. IndexOf(vec.data, d) = i - 1
  BY <1>2
<1> HIDE DEF i
<1>7. i - 1 \in 0..n - 1
  BY <1>1, <1>5
<1> QED
  BY <1>6, <1>7 DEF n

LEMMA InsertSortedKeeps ==
  ASSUME VectorInv, vec # None, Fine, NEW d \in Data, VectorInsertSorted(d)
  PROVE  VectorInv' /\ VectorStaysInside'
<1> DEFINE data == vec.data
           q == PlaceSorted(data, d)
<1>1. Ordered(data)
  <2>1. data \in Seq(Data) /\ Len(data) \in Nat /\ Len(data) <= TopBit
    <3> DEFINE n == Len(data)
    <3>1. data \in Seq(Data) /\ n \in Nat /\ n <= vec.capacity /\ vec.capacity <= TopBit
          /\ vec.capacity \in Nat
      BY VectorFields
    <3> HIDE DEF n
    <3>2. n <= TopBit
      BY <3>1, Limits
    <3> QED
      BY <3>1, <3>2 DEF n
  <2>2. \A j \in 1..Len(data) : data[j] \in Data
    BY <2>1, LenProperties
  <2>3. Sorted(data)
    BY DEF VectorInsertSorted
  <2> HIDE DEF data
  <2> QED
    BY <2>1, <2>2, <2>3, DataAssumption DEF Ordered
<1>2. Fits(data, d, q)
  BY <1>1, PlaceFits
<1>3. VectorInsertAt(q, d)
  BY DEF VectorInsertSorted
<1> HIDE DEF q
<1>4. q \in 0..Len(data)
  BY <1>2 DEF Fits
<1> QED
  BY <1>3, <1>4, InsertAtKeeps

LEMMA SortKeeps ==
  ASSUME VectorInv, vec # None, Fine, VectorSort
  PROVE  VectorInv' /\ VectorStaysInside'
<1> DEFINE n == Len(vec.data)
<1>1. vec.data \in Seq(Data) /\ n \in Nat /\ DOMAIN vec.data = 1..n
  BY VectorFields, LenProperties
<1>2. \A j \in 1..n : vec.data[j] \in Data
  BY <1>1, LenProperties
<1>3. PICK data \in SetToAllKPermutations(DOMAIN vec.data) :
         Len(data) = n /\ vec' = [vec EXCEPT !.data = [i \in DOMAIN data |-> vec.data[data[i]]]]
  BY DEF VectorSort
<1>4. PICK s \in SUBSET (1..n) : data \in [1..Cardinality(s) -> s]
  BY <1>1, <1>3 DEF SetToAllKPermutations, SetToSeqs
<1> DEFINE new == [i \in DOMAIN data |-> vec.data[data[i]]]
<1>5. DOMAIN data = 1..n
  <2>1. IsFiniteSet(1..n)
    BY <1>1, FS_Interval
  <2>2. IsFiniteSet(s)
    BY <2>1, FS_Subset
  <2>3. Cardinality(s) \in Nat /\ DOMAIN data = 1..Cardinality(s)
    BY <1>4, <2>2, FS_CardinalityType
  <2>4. data \in Seq(s)
    BY <1>4, <2>3
  <2>5. DOMAIN data = 1..Len(data)
    BY <2>4, LenProperties
  <2> QED
    BY <1>3, <2>5
<1>6. \A i \in 1..n : data[i] \in 1..n
  BY <1>4, <1>5
<1>7. new \in [1..n -> Data]
  BY <1>2, <1>5, <1>6
<1>8. vec' = [vec EXCEPT !.data = new] /\ Fine'
  BY <1>3 DEF VectorSort, Returns, Fine
<1> HIDE DEF new
<1>9. new \in Seq(Data) /\ Len(new) = n
  <2>1. new \in Seq(Data) /\ DOMAIN new = 1..n
    BY <1>1, <1>7
  <2>2. DOMAIN new = 1..Len(new) /\ Len(new) \in Nat
    BY <2>1, LenProperties
  <2> HIDE DEF n
  <2> QED
    BY <1>1, <2>1, <2>2
<1> QED
  BY <1>1, <1>8, <1>9, ShrinksKeeps

LEMMA SetCapacityKeeps ==
  ASSUME VectorInv, vec # None, Fine, NEW c \in 0..UIntMax, VectorSetCapacity(c)
  PROVE  VectorInv' /\ VectorStaysInside'
<1> DEFINE nice == NiceSize(c, VectorDefault)
           cut == Cut(vec.data, c)
<1>1. /\ vec = [data |-> vec.data, capacity |-> vec.capacity, compares |-> vec.compares]
      /\ vec.data \in Seq(Data) /\ Len(vec.data) <= vec.capacity /\ vec.compares \in BOOLEAN
  BY VectorFields
<1>2. CASE NeverNice(c, VectorDefault)
  <2>1. vec' = vec /\ fault' = "get_nice_size"
    BY <1>2 DEF VectorSetCapacity, Stray
  <2> QED
    BY <1>1, <2>1 DEF VectorInv, VectorStaysInside
<1>3. CASE ~NeverNice(c, VectorDefault)
  <2>1. c \in Nat /\ c <= TopBit
    BY <1>3, VectorAssumption, Limits DEF NeverNice
  <2>2. /\ nice \in Nat /\ IsPower(nice) /\ c <= nice
        /\ VectorDefault <= nice /\ nice <= TopBit
    BY <2>1, VectorAssumption, NiceSizeFits
  <2>3. cut \in Seq(Data) /\ Len(cut) <= c /\ Len(cut) \in Nat
    BY <1>1, <2>1, CutFits, LenProperties
  <2>4. Len(cut) <= Len(vec.data)
    <3>1. Len(vec.data) \in Nat /\ Len(vec.data) <= c => cut = vec.data
      BY <1>1, <2>1, CutFits, LenProperties
    <3> HIDE DEF cut
    <3> QED
      BY <2>1, <2>3, <3>1, VectorFields
  <2>5. Fine'
    BY <1>3 DEF VectorSetCapacity, Returns, Fine
  <2>6. \/ vec' = [[vec EXCEPT !.data = cut] EXCEPT !.capacity = nice]
        \/ vec' = [vec EXCEPT !.data = cut]
    BY <1>3 DEF VectorSetCapacity
  <2> HIDE DEF cut, nice
  <2>7. CASE vec' = [[vec EXCEPT !.data = cut] EXCEPT !.capacity = nice]
    <3>1. vec' = [data |-> cut, capacity |-> nice, compares |-> vec.compares]
      BY <1>1, <2>7
    <3>2. Len(cut) <= nice
      BY <2>1, <2>2, <2>3
    <3> QED
      BY <1>1, <2>2, <2>3, <2>5, <3>1, <3>2, VectorMade
  <2>8. CASE vec' = [vec EXCEPT !.data = cut]
    BY <2>3, <2>4, <2>5, <2>8, ShrinksKeeps
  <2> QED
    BY <2>6, <2>7, <2>8
<1> QED
  BY <1>2, <1>3

\* Every call of a vector keeps its elements inside its array, where it does not
\* say that it left it.
LEMMA VectorKeeps ==
  ASSUME VectorInv, VectorNext
  PROVE  VectorInv' /\ VectorStaysInside'
<1> USE DEF Stray, Returns
<1>1. Fine
  BY DEF VectorNext
<1>2. ASSUME NEW c \in 0..TopBit, VectorInit(c) PROVE VectorInv' /\ VectorStaysInside'
  <2> DEFINE nice == NiceSize(c, VectorDefault)
  <2>1. c \in Nat /\ c <= TopBit
    BY Limits
  <2>2. /\ nice \in Nat /\ IsPower(nice) /\ c <= nice
        /\ VectorDefault <= nice /\ nice <= TopBit
    BY <2>1, VectorAssumption, NiceSizeFits
  <2>3. /\ \/ vec' = [data |-> <<>>, capacity |-> nice, compares |-> FALSE]
           \/ vec' = None
        /\ fault' = "none"
    BY <1>1, <1>2 DEF VectorInit, Fine
  <2> HIDE DEF nice
  <2>4. CASE vec' = None
    BY <2>3, <2>4 DEF VectorInv, VectorStaysInside
  <2>5. CASE vec' = [data |-> <<>>, capacity |-> nice, compares |-> FALSE]
    <3>1. <<>> \in Seq(Data) /\ Len(<<>>) <= nice /\ FALSE \in BOOLEAN /\ Fine'
      BY <2>2, <2>3, EmptySeq DEF Fine
    <3> QED
      BY <2>2, <2>5, <3>1, VectorMade
  <2> QED
    BY <2>3, <2>4, <2>5
<1> SUFFICES ASSUME vec # None PROVE VectorInv' /\ VectorStaysInside'
  BY <1>2 DEF VectorNext
<1>3. ASSUME NEW d \in Data, VectorTake(d) PROVE VectorInv' /\ VectorStaysInside'
  <2>1. CASE Matches(vec.data, d) # {}
    <3> DEFINE i == IndexOf(vec.data, d)
    <3>1. i \in 0..Len(vec.data) - 1 /\ VectorTakeAt(i)
      BY <1>3, <2>1, IndexOfFits DEF VectorTake
    <3> HIDE DEF i
    <3> QED
      BY <1>1, <3>1, TakeAtKeeps
  <2>2. CASE Matches(vec.data, d) = {}
    <3>1. vec' = vec /\ fault' = "none"
      BY <1>1, <1>3, <2>2 DEF VectorTake, Fine
    <3> QED
      BY <3>1, VectorFields DEF VectorInv, VectorStaysInside
  <2> QED
    BY <2>1, <2>2
<1>4. ASSUME NEW d \in Data, VectorTakeAll(d) PROVE VectorInv' /\ VectorStaysInside'
  <2> DEFINE new == TakeAllOf(vec.data, d)
  <2>1. new \in Seq(Data) /\ Len(new) <= Len(vec.data)
    BY VectorFields, TakeAllShrinks
  <2>2. vec' = [vec EXCEPT !.data = new] /\ Fine'
    BY <1>1, <1>4 DEF VectorTakeAll, Fine
  <2> HIDE DEF new
  <2> QED
    BY <2>1, <2>2, ShrinksKeeps
<1>5. ASSUME NEW d \in Data, VectorTakeSorted(d) PROVE VectorInv' /\ VectorStaysInside'
  <2> DEFINE i == IndexOfSorted(vec.data, d)
  <2>1. CASE i \in 0..Len(vec.data) - 1 /\ VectorTakeAt(i)
    <3> HIDE DEF i
    <3> QED
      BY <1>1, <2>1, TakeAtKeeps
  <2>2. CASE vec' = vec /\ fault' \in {"none", "vector_index_of_sorted"}
    BY <2>2, VectorFields DEF VectorInv, VectorStaysInside
  <2>3. (i \in 0..Len(vec.data) - 1 /\ VectorTakeAt(i))
        \/ (vec' = vec /\ fault' \in {"none", "vector_index_of_sorted"})
    BY <1>1, <1>5 DEF VectorTakeSorted, Fine
  <2> QED
    BY <2>1, <2>2, <2>3
<1>6. ASSUME VectorClear PROVE VectorInv' /\ VectorStaysInside'
  <2>1. vec' = [vec EXCEPT !.data = <<>>] /\ Fine'
    BY <1>1, <1>6 DEF VectorClear, Fine
  <2>2. <<>> \in Seq(Data) /\ Len(<<>>) <= Len(vec.data)
    BY VectorFields, EmptySeq
  <2> QED
    BY <2>1, <2>2, ShrinksKeeps
<1>7. ASSUME VectorSetDataCompare PROVE VectorInv' /\ VectorStaysInside'
  <2>1. vec' = [vec EXCEPT !.compares = ~vec.compares] /\ Fine'
    BY <1>1, <1>7 DEF VectorSetDataCompare, Fine
  <2>2. vec' = [data |-> vec.data, capacity |-> vec.capacity, compares |-> ~vec.compares]
    BY <2>1, VectorFields
  <2>3. (~vec.compares) \in BOOLEAN
    BY VectorFields
  <2> QED
    BY <2>1, <2>2, <2>3, VectorFields, VectorMade
<1>8. ASSUME VectorDestroy PROVE VectorInv' /\ VectorStaysInside'
  BY <1>1, <1>8 DEF VectorDestroy, VectorInv, VectorStaysInside, Fine
<1>9. ASSUME NEW d \in Data,
             \/ \E i \in 0..Len(vec.data) : VectorInsertAt(i, d)
             \/ VectorInsertSorted(d)
      PROVE  VectorInv' /\ VectorStaysInside'
  BY <1>1, <1>9, InsertAtKeeps, InsertSortedKeeps
<1>10. ASSUME NEW i \in 0..Len(vec.data) - 1, VectorTakeAt(i)
       PROVE  VectorInv' /\ VectorStaysInside'
  BY <1>1, <1>10, TakeAtKeeps
<1>11. ASSUME NEW c \in 0..UIntMax, VectorSetCapacity(c)
       PROVE  VectorInv' /\ VectorStaysInside'
  BY <1>1, <1>11, SetCapacityKeeps
<1>12. CASE VectorSort
  BY <1>1, <1>12, SortKeeps
<1>13. CASE \E c \in 0..TopBit : VectorInit(c)
  BY <1>2, <1>13
<1>14. CASE \E d \in Data :
               \/ \E i \in 0..Len(vec.data) : VectorInsertAt(i, d)
               \/ VectorInsertSorted(d)
               \/ VectorTake(d) \/ VectorTakeAll(d) \/ VectorTakeSorted(d)
  BY <1>3, <1>4, <1>5, <1>9, <1>14
<1> QED
  BY <1>6, <1>7, <1>8, <1>10, <1>11, <1>12, <1>13, <1>14 DEF VectorNext

-----------------------------------------------------------------------------
(* Buffer *)

BufferTypes == [data : Seq(Bytes \cup {Lost}), accessed : Nat, granted : Nat, size : Nat,
                large : BOOLEAN]

BuffersAreObjects == None \notin BufferTypes

\* The used and the granted bytes fit, until room is made for too many.
BufferFits(data, accessed, granted, size, large) ==
    /\ data \in Seq(Bytes \cup {Lost}) /\ Len(data) <= TopBit
    /\ accessed \in Nat /\ granted \in Nat /\ size \in Nat /\ large \in BOOLEAN
    /\ accessed <= Len(data)
    /\ IsPower(size) /\ BufferDefault <= size /\ size <= TopBit
    /\ ~large => Len(data) + granted <= size

BufferInv ==
    buf # None =>
        /\ buf \in BufferTypes
        /\ BufferFits(buf.data, buf.accessed, buf.granted, buf.size, buf.large)

\* Doubling a size leads through powers of two, beyond any number.
LEMMA SizesDouble ==
  ASSUME NEW s \in Nat, IsPower(s)
  PROVE  \A e \in Nat : /\ s * Power[e] \in Nat /\ IsPower(s * Power[e])
                        /\ s * Power[e] >= s + e
                        /\ s * Power[e + 1] = 2 * (s * Power[e])
<1> DEFINE S == {e \in Nat : s * Power[e] \in Nat /\ IsPower(s * Power[e]) /\ s * Power[e] >= s + e}
<1>1. \A e \in Nat : Power[e] \in Nat /\ Power[e + 1] = 2 * Power[e] /\ Power[0] = 1
  BY PowerOfTwo
<1>2. s >= 1
  BY PowersOfTwo
<1>3. ASSUME NEW e \in Nat PROVE s * Power[e + 1] = 2 * (s * Power[e]) /\ s * Power[e] \in Nat
  <2> DEFINE p == Power[e]
  <2>1. p \in Nat /\ Power[e + 1] = 2 * p
    BY <1>1
  <2> HIDE DEF p
  <2>2. s * (2 * p) = 2 * (s * p) /\ s * p \in Nat
    BY <2>1
  <2> QED
    BY <2>1, <2>2 DEF p
<1>4. 0 \in S
  BY <1>1
<1>5. ASSUME NEW e \in Nat, e \in S PROVE e + 1 \in S
  <2> DEFINE q == s * Power[e]
  <2>1. q \in Nat /\ IsPower(q) /\ q >= s + e /\ s * Power[e + 1] = 2 * q
    BY <1>3, <1>5
  <2> HIDE DEF q
  <2>2. IsPower(2 * q) /\ 2 * q \in Nat /\ 2 * q >= s + (e + 1)
    BY <1>2, <2>1, PowersOfTwo
  <2> QED
    BY <2>1, <2>2
<1> HIDE DEF S
<1>6. Nat \subseteq S
  BY <1>4, <1>5, NumberInduction
<1> QED
  BY <1>3, <1>6 DEF S

\* buffer_prepare_write() asks for less than twice what it needs; the size wraps
\* to 0 where that is not below 2 ^ 32.
LEMMA DoubledFits ==
  ASSUME NEW n \in 1..MaxWrite, buf.size \in Nat, IsPower(buf.size), buf.size <= TopBit
  PROVE  /\ Doubled(n) \in Nat
         /\ \/ Doubled(n) <= TopBit /\ Wrap(Doubled(n)) = Doubled(n) /\ Doubled(n) > buf.size + n
            \/ Wrap(Doubled(n)) = 0 /\ buf.size + n >= TopBit
<1> DEFINE s == buf.size
           T == {s * Power[e] : e \in 0..UIntRange}
           S == T \ 0..s + n
           d == Doubled(n)
<1>1. /\ s \in Nat /\ s >= 1 /\ n \in Nat /\ n >= 1 /\ n < UIntRange /\ s <= TopBit
      /\ UIntRange \in Nat /\ UIntRange = 2 * TopBit /\ TopBit \in Nat /\ TopBit >= 2
      /\ IsPower(s) /\ IsPower(TopBit)
  BY PowersOfTwo, Limits, BufferAssumption
<1> HIDE DEF s
<1>2. \A e \in Nat : /\ s * Power[e] \in Nat /\ IsPower(s * Power[e])
                     /\ s * Power[e] >= s + e
                     /\ s * Power[e + 1] = 2 * (s * Power[e])
  BY <1>1, SizesDouble
<1>3. d = First(S)
  BY DEF Doubled, s
<1>4. d \in S /\ \A o \in S : d <= o
  <2>1. S \subseteq Nat
    BY <1>1, <1>2
  <2>2. s * Power[UIntRange] \in S
    <3>1. s * Power[UIntRange] \in T /\ s * Power[UIntRange] >= s + UIntRange
      BY <1>1, <1>2
    <3> DEFINE x == s * Power[UIntRange]
    <3> HIDE DEF x
    <3>2. ~(x \in 0..s + n)
      BY <1>1, <3>1 DEF x
    <3> QED
      BY <3>1, <3>2 DEF x
  <2> HIDE DEF S
  <2> QED
    BY <1>3, <2>1, <2>2, FirstIsLeast
<1>5. PICK e \in 0..UIntRange : d = s * Power[e]
  BY <1>4
<1>6. d \in Nat /\ IsPower(d) /\ d > s + n
  <2>1. d \in Nat /\ IsPower(d)
    BY <1>1, <1>2, <1>5
  <2>2. d \notin 0..s + n
    BY <1>4
  <2> HIDE DEF d
  <2> QED
    BY <1>1, <2>1, <2>2
<1>7. d <= 2 * (s + n)
  <2>1. e # 0
    <3>1. CASE e = 0
      <4>1. d = s
        BY <1>1, <1>5, <3>1, PowerOfTwo
      <4> HIDE DEF d
      <4> QED
        BY <1>1, <1>6, <4>1
    <3> QED
      BY <3>1
  <2>2. e - 1 \in Nat /\ e - 1 \in 0..UIntRange /\ (e - 1) + 1 = e
    BY <1>1, <2>1
  <2> DEFINE h == s * Power[e - 1]
  <2>3. h \in Nat /\ d = 2 * h /\ h \in T
    BY <1>2, <1>5, <2>2
  <2>4. h >= 1
    BY <1>1, <1>2, <2>2
  <2>5. h \in S => d <= h
    BY <1>4
  <2>6. h \notin S => h \in 0..s + n
    BY <2>3
  <2> HIDE DEF h, S, d
  <2> QED
    BY <1>1, <2>3, <2>4, <2>5, <2>6
<1> HIDE DEF d
<1>8. CASE d <= TopBit
  <2>1. Wrap(d) = d
    BY <1>1, <1>6, <1>8, Wraps
  <2> QED
    BY <1>6, <1>8, <2>1 DEF d, s
<1>9. CASE d > TopBit
  <2>1. IsPower(UIntRange) /\ IsPower(2 * UIntRange)
    BY <1>1, PowersOfTwo
  <2>2. UIntRange <= d
    BY <1>1, <1>6, <1>9, PowersApart
  <2>3. d < 3 * UIntRange
    BY <1>1, <1>6, <1>7
  <2>4. d = UIntRange \/ d = 2 * UIntRange
    <3>1. d # UIntRange => 2 * UIntRange <= d
      BY <1>1, <1>6, <2>1, <2>2, PowersApart
    <3>2. d # 2 * UIntRange /\ 2 * UIntRange <= d => 2 * (2 * UIntRange) <= d
      BY <1>1, <1>6, <2>1, PowersApart
    <3> QED
      BY <1>1, <1>6, <2>3, <3>1, <3>2
  <2>5. Wrap(d) = 0
    BY <1>1, <2>4 DEF Wrap
  <2>6. s + n >= TopBit
    BY <1>1, <1>6, <1>7, <2>2
  <2> QED
    BY <1>6, <2>5, <2>6 DEF d, s
<1> QED
  BY <1>1, <1>6, <1>8, <1>9

LEMMA BufferFields ==
  ASSUME BufferInv, buf # None
  PROVE  /\ buf = [data |-> buf.data, accessed |-> buf.accessed, granted |-> buf.granted,
                   size |-> buf.size, large |-> buf.large]
         /\ BufferFits(buf.data, buf.accessed, buf.granted, buf.size, buf.large)
         /\ Used \in Nat /\ Used <= TopBit /\ (~buf.large => Used + buf.granted <= buf.size)
<1>1. buf \in BufferTypes /\ BufferFits(buf.data, buf.accessed, buf.granted, buf.size, buf.large)
  BY DEF BufferInv
<1>2. Used \in Nat
  BY <1>1, LenProperties DEF BufferFits, Used
<1> QED
  BY <1>1, <1>2 DEF BufferTypes, BufferFits, Used

\* A buffer in which everything fits.
LEMMA BufferMade ==
  ASSUME NEW data, NEW accessed, NEW granted, NEW size, NEW large,
         BufferFits(data, accessed, granted, size, large), Fine',
         buf' = [data |-> data, accessed |-> accessed, granted |-> granted, size |-> size,
                 large |-> large]
  PROVE  BufferInv' /\ BufferStaysInside'
<1>1. /\ buf' \in BufferTypes /\ buf'.data = data /\ buf'.accessed = accessed
      /\ buf'.granted = granted /\ buf'.size = size /\ buf'.large = large
  BY DEF BufferTypes, BufferFits
<1>2. BufferInv'
  BY <1>1 DEF BufferInv
<1>3. Used' = Len(data)
  BY <1>1 DEF Used
<1>4. BufferStaysInside'
  BY <1>1, <1>3 DEF BufferStaysInside, BufferFits, Fine
<1> QED
  BY <1>2, <1>4

\* A call that leaves the buffer as it is.
LEMMA BufferRests ==
  ASSUME BufferInv, buf' = buf, Fine'
  PROVE  BufferInv' /\ BufferStaysInside'
<1>1. BufferInv'
  BY DEF BufferInv
<1>2. CASE buf = None
  BY <1>1, <1>2 DEF BufferStaysInside, Fine
<1>3. CASE buf # None
  BY <1>3, BufferFields, BufferMade
<1> QED
  BY <1>2, <1>3

LEMMA KeptFits ==
  ASSUME NEW S, NEW data \in Seq(S \cup {Lost}), NEW size \in Nat
  PROVE  /\ Kept(data, size) \in Seq(S \cup {Lost})
         /\ Len(Kept(data, size)) = Len(data)
         /\ Len(data) <= size => Kept(data, size) = data
<1> DEFINE n == Len(data)
           new == Kept(data, size)
<1>1. n \in Nat /\ DOMAIN data = 1..n /\ \A i \in 1..n : data[i] \in S \cup {Lost}
  BY LenProperties
<1>2. new = [i \in 1..n |-> IF i <= size THEN data[i] ELSE Lost]
  BY <1>1 DEF Kept
<1>3. \A i \in 1..n : (IF i <= size THEN data[i] ELSE Lost) \in S \cup {Lost}
  BY <1>1
<1>4. new \in [1..n -> S \cup {Lost}]
  BY <1>2, <1>3
<1>5. data = [i \in 1..n |-> data[i]]
  <2>1. data \in [1..n -> S \cup {Lost}]
    BY <1>1
  <2> QED
    BY <2>1
<1> HIDE DEF new
<1>6. new \in Seq(S \cup {Lost}) /\ Len(new) = n
  <2>1. new \in Seq(S \cup {Lost}) /\ DOMAIN new = 1..n
    BY <1>1, <1>4
  <2>2. DOMAIN new = 1..Len(new) /\ Len(new) \in Nat
    BY <2>1, LenProperties
  <2> HIDE DEF n
  <2> QED
    BY <1>1, <2>1, <2>2
<1>7. n <= size => new = data
  BY <1>1, <1>2, <1>5
<1> QED
  BY <1>6, <1>7 DEF new

\* An array of another size, for what is used and granted then.
LEMMA ResizeKeeps ==
  ASSUME BufferInv, buf # None, Fine, NEW size \in Nat, NEW granted \in Nat,
         NEW large \in BOOLEAN, Wrap(size) <= TopBit, Resize(size, granted, large),
         ~large => Used + granted <= Wrap(size)
  PROVE  BufferInv' /\ BufferStaysInside'
<1> DEFINE nice == NiceSize(Wrap(size), BufferDefault)
           data == Kept(buf.data, nice)
<1>1. /\ buf = [data |-> buf.data, accessed |-> buf.accessed, granted |-> buf.granted,
                size |-> buf.size, large |-> buf.large]
      /\ BufferFits(buf.data, buf.accessed, buf.granted, buf.size, buf.large)
      /\ Used \in Nat
  BY BufferFields
<1>2. Fine' /\ (\/ buf' = [buf EXCEPT !.size = nice, !.data = data, !.granted = granted,
                                       !.large = large]
                \/ buf' = buf)
  BY DEF Resize, Returns, Fine
<1>3. /\ nice \in Nat /\ IsPower(nice) /\ Wrap(size) <= nice
      /\ BufferDefault <= nice /\ nice <= TopBit /\ Wrap(size) \in Nat
  BY Wraps, BufferAssumption, NiceSizeFits
<1>4. data \in Seq(Bytes \cup {Lost}) /\ Len(data) = Used
  BY <1>1, <1>3, KeptFits DEF BufferFits, Used
<1>5. CASE buf' = [buf EXCEPT !.size = nice, !.data = data, !.granted = granted,
                              !.large = large]
  <2> DEFINE n == Len(data)
  <2> HIDE DEF nice, data
  <2>1. buf' = [data |-> data, accessed |-> buf.accessed, granted |-> granted, size |-> nice,
                large |-> large]
    BY <1>1, <1>5
  <2>2. /\ n = Used /\ n \in Nat /\ n <= TopBit /\ buf.accessed <= n /\ buf.accessed \in Nat
    BY <1>1, <1>4 DEF BufferFits, Used
  <2>3. ~large => n + granted <= Wrap(size)
    BY <2>2
  <2> HIDE DEF n
  <2>4. ~large => n + granted <= nice
    BY <1>3, <2>2, <2>3
  <2>5. BufferFits(data, buf.accessed, granted, nice, large)
    BY <1>3, <1>4, <2>2, <2>4 DEF BufferFits, n
  <2> QED
    BY <1>2, <2>1, <2>5, BufferMade
<1>6. CASE buf' = buf
  BY <1>2, <1>6, BufferRests
<1> QED
  BY <1>2, <1>5, <1>6

LEMMA PrepareKeeps ==
  ASSUME BufferInv, buf # None, Fine, NEW n \in 1..MaxWrite, BufferPrepareWrite(n)
  PROVE  BufferInv' /\ BufferStaysInside'
<1> DEFINE large == buf.large \/ Used + n > Quarter
<1>1. /\ buf = [data |-> buf.data, accessed |-> buf.accessed, granted |-> buf.granted,
                size |-> buf.size, large |-> buf.large]
      /\ BufferFits(buf.data, buf.accessed, buf.granted, buf.size, buf.large)
      /\ Used \in Nat /\ (~buf.large => Used + buf.granted <= buf.size)
      /\ n \in Nat /\ n >= 1
  BY BufferFields, BufferAssumption
<1>2. CASE Used + n <= buf.size
  <2>1. buf' = [buf EXCEPT !.granted = n, !.large = large] /\ Fine'
    BY <1>2 DEF BufferPrepareWrite, Returns, Fine
  <2>2. buf' = [data |-> buf.data, accessed |-> buf.accessed, granted |-> n, size |-> buf.size,
                large |-> large]
    BY <1>1, <2>1
  <2>3. BufferFits(buf.data, buf.accessed, n, buf.size, large)
    BY <1>1, <1>2 DEF BufferFits, Used
  <2> QED
    BY <2>1, <2>2, <2>3, BufferMade
<1>3. CASE ~(Used + n <= buf.size)
  <2> DEFINE d == Doubled(n)
             s == buf.size
  <2>1. s \in Nat /\ IsPower(s) /\ s <= TopBit /\ buf.granted \in Nat
    BY <1>1 DEF BufferFits
  <2>2. /\ d \in Nat
        /\ \/ d <= TopBit /\ Wrap(d) = d /\ d > s + n
           \/ Wrap(d) = 0 /\ s + n >= TopBit
    BY <2>1, DoubledFits
  <2>3. Resize(d, n, large)
    BY <1>3 DEF BufferPrepareWrite
  <2> HIDE DEF d
  <2>4. Wrap(d) <= TopBit
    BY <2>2, Limits
  <2>5. TopBit = 2 * Quarter /\ Quarter \in Nat /\ IsPower(TopBit) /\ TopBit \in Nat
    BY Limits
  <2>6. s = TopBit \/ 2 * s <= TopBit
    BY <2>1, <2>5, PowersApart
  <2> DEFINE u == Used
  <2>7. u \in Nat /\ ~(u + n <= s) /\ (~buf.large => u + buf.granted <= s)
        /\ (~large => ~buf.large /\ u + n <= Quarter)
    BY <1>1, <1>3, <2>1, <2>5
  <2>10. large \in BOOLEAN
    BY <1>1 DEF BufferFits
  <2> HIDE DEF s, u, large
  <2>8. ~large => u + n <= Wrap(d)
    <3> SUFFICES ASSUME ~large PROVE u + n <= Wrap(d)
      OBVIOUS
    <3>1. u + buf.granted <= s /\ u + n <= Quarter
      BY <2>7
    <3>2. u <= s
      BY <2>1, <2>7, <3>1 DEF s
    <3>3. s < Quarter
      BY <1>1, <2>1, <2>5, <2>7, <3>1 DEF s
    <3>4. 2 * s <= TopBit /\ s # TopBit
      BY <2>1, <2>5, <2>6, <3>3 DEF s
    <3>5. s + n < TopBit
      BY <1>1, <2>1, <2>5, <2>7, <3>1, <3>3 DEF s
    <3> QED
      BY <1>1, <2>1, <2>2, <2>5, <2>7, <3>2, <3>5 DEF s
  <2> QED
    BY <1>1, <2>2, <2>3, <2>4, <2>8, <2>10, ResizeKeeps DEF u
<1> QED
  BY <1>2, <1>3

\* Other contents for the same array.
NewContents(data, accessed, granted) ==
    /\ data \in Seq(Bytes \cup {Lost}) /\ accessed \in Nat /\ granted \in Nat
    /\ Len(data) <= TopBit /\ accessed <= Len(data)
    /\ ~buf.large => Len(data) + granted <= buf.size
    /\ buf' = [buf EXCEPT !.data = data, !.accessed = accessed, !.granted = granted]

LEMMA ContentsKeep ==
  ASSUME BufferInv, buf # None, Fine', NEW data, NEW accessed, NEW granted,
         NewContents(data, accessed, granted)
  PROVE  BufferInv' /\ BufferStaysInside'
<1>1. /\ buf = [data |-> buf.data, accessed |-> buf.accessed, granted |-> buf.granted,
                size |-> buf.size, large |-> buf.large]
      /\ BufferFits(buf.data, buf.accessed, buf.granted, buf.size, buf.large)
  BY BufferFields
<1>2. buf' = [data |-> data, accessed |-> accessed, granted |-> granted, size |-> buf.size,
              large |-> buf.large]
  BY <1>1 DEF NewContents
<1>3. BufferFits(data, accessed, granted, buf.size, buf.large)
  BY <1>1 DEF BufferFits, NewContents
<1> QED
  BY <1>2, <1>3, BufferMade

\* What a buffer yields and is given are no sequences of other things.
LEMMA BytesAreBytes ==
  ASSUME NEW n \in 1..MaxWrite, NEW b \in [1..n -> Bytes]
  PROVE  b \in Seq(Bytes) /\ b \in Seq(Bytes \cup {Lost}) /\ Len(b) = n /\ n \in Nat
<1>1. n \in Nat
  BY BufferAssumption
<1>2. b \in Seq(Bytes) /\ DOMAIN b = 1..n
  BY <1>1
<1>3. DOMAIN b = 1..Len(b) /\ Len(b) \in Nat
  BY <1>2, LenProperties
<1>4. Len(b) = n
  BY <1>1, <1>2, <1>3
<1>5. \A i \in 1..n : b[i] \in Bytes \cup {Lost}
  OBVIOUS
<1>6. b \in [1..n -> Bytes \cup {Lost}]
  BY <1>5
<1> QED
  BY <1>1, <1>2, <1>4, <1>6

LEMMA SilentCalls ==
  /\ returned' = None => Stream!Silent
  /\ returned' = Failed => Stream!Silent
<1>1. \A n \in 1..MaxWrite : [1..n -> Bytes] \subseteq Seq(Bytes)
  BY BytesAreBytes
<1> QED
  BY <1>1, BufferAssumption DEF Stream!Silent

\* Each call keeps the buffer, and is one of a byte stream.
BufferServes ==
    /\ BufferInv' /\ BufferStaysInside'
    /\ BuffersAreObjects /\ Fine' /\ BufferWhole' => Stream!Next

\* A call that changes neither the contents nor the position.
LEMMA StreamKeeps ==
  ASSUME BufferInv, buf # None, returned' \in {None, Failed},
         buf' = buf \/ (buf' \in BufferTypes /\ buf'.data = buf.data /\ buf'.accessed = buf.accessed),
         BuffersAreObjects
  PROVE  Stream!Next
<1>1. Stream!Silent
  BY SilentCalls
<1>2. buf' \in BufferTypes
  BY DEF BufferInv
<1>3. /\ (IF buf' = None THEN <<>> ELSE buf'.data) = (IF buf = None THEN <<>> ELSE buf.data)
      /\ (IF buf' = None THEN 0 ELSE buf'.accessed) = (IF buf = None THEN 0 ELSE buf.accessed)
  BY <1>2 DEF BuffersAreObjects
<1> QED
  BY <1>1, <1>3 DEF Stream!Next, Stream!Keep

LEMMA ResizeServes ==
  ASSUME BufferInv, buf # None, Fine, NEW size \in Nat, NEW granted \in Nat,
         NEW large \in BOOLEAN, Resize(size, granted, large), BufferInv',
         BuffersAreObjects, BufferWhole'
  PROVE  Stream!Next
<1> DEFINE nice == NiceSize(Wrap(size), BufferDefault)
           data == Kept(buf.data, nice)
           new == [buf EXCEPT !.size = nice, !.data = data, !.granted = granted, !.large = large]
<1>1. returned' \in {None, Failed} /\ (buf' = new \/ buf' = buf)
  BY DEF Resize, Returns
<1>2. CASE buf' = new
  <2>1. buf \in BufferTypes
    BY DEF BufferInv
  <2>2. new.data = data /\ new.accessed = buf.accessed /\ new.size = nice
    BY <2>1 DEF BufferTypes
  <2>3. buf.data \in Seq(Bytes \cup {Lost}) /\ nice \in Nat
    BY <2>1, Wraps, BufferAssumption, NiceSizeIsNice DEF BufferTypes
  <2>4. Len(data) = Len(buf.data) /\ (Len(buf.data) <= nice => data = buf.data)
    BY <2>3, KeptFits
  <2>5. buf' \in BufferTypes
    <3>1. data \in Seq(Bytes \cup {Lost})
      BY <2>3, KeptFits
    <3> HIDE DEF data, nice
    <3> QED
      BY <1>2, <2>1, <2>3, <3>1 DEF BufferTypes
  <2> HIDE DEF new, nice, data
  <2>6. Len(data) <= nice
    BY <1>2, <2>2, <2>5 DEF BufferWhole, BuffersAreObjects, Used
  <2>7. buf'.data = buf.data /\ buf'.accessed = buf.accessed
    BY <1>2, <2>2, <2>4, <2>6
  <2> QED
    BY <1>1, <2>5, <2>7, StreamKeeps
<1>3. CASE buf' = buf
  BY <1>1, <1>3, StreamKeeps
<1> QED
  BY <1>1, <1>2, <1>3

LEMMA PrepareServes ==
  ASSUME BufferInv, buf # None, Fine, NEW n \in 1..MaxWrite, BufferPrepareWrite(n)
  PROVE  BufferServes
<1>1. BufferInv' /\ BufferStaysInside'
  BY PrepareKeeps
<1>2. ASSUME BuffersAreObjects, BufferWhole' PROVE Stream!Next
  <2> DEFINE large == buf.large \/ Used + n > Quarter
  <2>1. buf \in BufferTypes /\ n \in Nat /\ buf.size \in Nat
    BY BufferAssumption DEF BufferInv, BufferTypes
  <2>4. large \in BOOLEAN
    BY <2>1 DEF BufferTypes
  <2>2. CASE Used + n <= buf.size
    <3>1. buf' = [buf EXCEPT !.granted = n, !.large = large] /\ returned' = None
      BY <2>2 DEF BufferPrepareWrite, Returns
    <3> HIDE DEF large
    <3>2. buf' \in BufferTypes /\ buf'.data = buf.data /\ buf'.accessed = buf.accessed
      BY <2>1, <2>4, <3>1 DEF BufferTypes
    <3> QED
      BY <1>2, <3>1, <3>2, StreamKeeps
  <2>3. CASE ~(Used + n <= buf.size)
    <3>1. Doubled(n) \in Nat
      <4>1. IsPower(buf.size) /\ buf.size <= TopBit
        BY BufferFields DEF BufferFits
      <4> QED
        BY <2>1, <4>1, DoubledFits
    <3>2. Resize(Doubled(n), n, large)
      BY <2>3 DEF BufferPrepareWrite
    <3> HIDE DEF large
    <3> QED
      BY <1>1, <1>2, <2>1, <2>4, <3>1, <3>2, ResizeServes
  <2> QED
    BY <2>2, <2>3
<1> QED
  BY <1>1, <1>2 DEF BufferServes

LEMMA SqueezeServes ==
  ASSUME BufferInv, buf # None, Fine, BufferSqueeze
  PROVE  BufferServes
<1>1. Used \in Nat /\ Used <= TopBit /\ buf.large \in BOOLEAN
  BY BufferFields DEF BufferFits
<1>2. Wrap(Used) = Used
  BY <1>1, Limits, Wraps
<1>3. Resize(Used, 0, buf.large)
  BY DEF BufferSqueeze
<1> DEFINE u == Used
<1>4. u \in Nat /\ u <= TopBit /\ Wrap(u) = u /\ Resize(u, 0, buf.large) /\ u = Used
  BY <1>1, <1>2, <1>3
<1> HIDE DEF u
<1>5. BufferInv' /\ BufferStaysInside'
  BY <1>1, <1>4, ResizeKeeps
<1>6. BuffersAreObjects /\ BufferWhole' => Stream!Next
  BY <1>1, <1>4, <1>5, ResizeServes
<1> QED
  BY <1>5, <1>6 DEF BufferServes

LEMMA WriteServes ==
  ASSUME BufferInv, buf # None, Fine, NEW n \in 1..MaxWrite, NEW b \in [1..n -> Bytes],
         BufferWrite(b)
  PROVE  BufferServes
<1>1. /\ BufferFits(buf.data, buf.accessed, buf.granted, buf.size, buf.large)
      /\ Used \in Nat /\ Used <= TopBit /\ (~buf.large => Used + buf.granted <= buf.size)
      /\ buf.size \in Nat /\ buf.size <= TopBit /\ buf.granted \in Nat /\ buf.accessed \in Nat
      /\ buf.accessed <= Used /\ buf.data \in Seq(Bytes \cup {Lost})
  BY BufferFields DEF BufferFits, Used
<1>2. b \in Seq(Bytes \cup {Lost}) /\ Len(b) = n /\ n \in Nat
  BY BytesAreBytes
<1>3. n <= buf.granted
  BY <1>2 DEF BufferWrite
<1> DEFINE data == buf.data \o b
           u == Used
<1>4. CASE u + n <= buf.size
  <2>1. data \in Seq(Bytes \cup {Lost}) /\ Len(data) = u + n
    BY <1>1, <1>2, ConcatProperties DEF Used
  <2>2. buf' = [buf EXCEPT !.data = data, !.granted = buf.granted - n] /\ Fine' /\ returned' = b
    BY <1>2, <1>4 DEF BufferWrite, Returns, Fine
  <2> HIDE DEF data
  <2>3. buf' = [buf EXCEPT !.data = data, !.accessed = buf.accessed, !.granted = buf.granted - n]
    BY <2>2 DEF BufferInv, BufferTypes
  <2>5. /\ buf.granted - n \in Nat /\ Len(data) <= TopBit /\ buf.accessed <= Len(data)
        /\ ~buf.large => Len(data) + (buf.granted - n) <= buf.size
    <3> HIDE DEF u
    <3>1. u \in Nat /\ (~buf.large => u + buf.granted <= buf.size) /\ buf.accessed <= u
      BY <1>1 DEF u
    <3>2. TopBit \in Nat
      BY Limits
    <3> DEFINE k == Len(data)
    <3>3. k = u + n
      BY <2>1
    <3> HIDE DEF k
    <3> DEFINE g == buf.granted
               z == buf.size
               a == buf.accessed
               l == buf.large
    <3>4. /\ g \in Nat /\ z \in Nat /\ a \in Nat /\ n \in Nat /\ n <= g /\ u + n <= z
          /\ z <= TopBit /\ a <= u /\ (~l => u + g <= z)
      BY <1>1, <1>2, <1>3, <1>4, <3>1
    <3> HIDE DEF g, z, a, l
    <3>5. g - n \in Nat /\ k <= TopBit /\ a <= k
      BY <3>1, <3>2, <3>3, <3>4
    <3>6. ~l => k + (g - n) <= z
      BY <3>1, <3>3, <3>4
    <3> QED
      BY <3>5, <3>6 DEF k, g, z, a, l
  <2>6. BufferInv' /\ BufferStaysInside'
    <3> DEFINE g == buf.granted - n
               a == buf.accessed
    <3>1. /\ g \in Nat /\ Len(data) <= TopBit /\ a <= Len(data) /\ a \in Nat
          /\ ~buf.large => Len(data) + g <= buf.size
          /\ buf' = [buf EXCEPT !.data = data, !.accessed = a, !.granted = g]
      BY <1>1, <2>3, <2>5
    <3> HIDE DEF g, a
    <3>2. NewContents(data, a, g)
      BY <2>1, <2>2, <3>1 DEF NewContents
    <3> QED
      BY <2>1, <2>2, <3>2, ContentsKeep
  <2>7. BuffersAreObjects => Stream!Write(b)
    <3>2. buf' \in BufferTypes
      BY <1>1, <2>1, <2>3, <2>5 DEF BufferInv, BufferTypes
    <3>3. buf'.data = data /\ buf'.accessed = buf.accessed
      BY <2>3 DEF BufferInv, BufferTypes
    <3> QED
      BY <2>2, <3>2, <3>3 DEF Stream!Write, BuffersAreObjects, data
  <2> QED
    BY <2>6, <2>7 DEF BufferServes, Stream!Next
<1>5. CASE ~(u + n <= buf.size)
  <2>1. buf' = buf /\ fault' = "buffer_write"
    BY <1>2, <1>5 DEF BufferWrite, Stray
  <2>2. buf.large
    <3> HIDE DEF u
    <3> DEFINE g == buf.granted
               z == buf.size
    <3>1. /\ u \in Nat /\ g \in Nat /\ z \in Nat /\ n \in Nat /\ n <= g /\ ~(u + n <= z)
          /\ ~buf.large => u + g <= z
      BY <1>1, <1>2, <1>3, <1>5 DEF u
    <3> HIDE DEF g, z
    <3>2. ~(u + g <= z)
      BY <3>1
    <3>3. buf.large \in BOOLEAN
      BY <1>1 DEF BufferFits
    <3> QED
      BY <3>1, <3>2, <3>3
  <2> QED
    BY <2>1, <2>2 DEF BufferServes, BufferInv, BufferStaysInside, Fine
<1> QED
  BY <1>4, <1>5

LEMMA ReadServes ==
  ASSUME BufferInv, buf # None, Fine, NEW n \in 1..MaxWrite, BufferRead(n)
  PROVE  BufferServes
<1>1. /\ Used \in Nat /\ Used <= TopBit /\ (~buf.large => Used + buf.granted <= buf.size)
      /\ buf.size \in Nat /\ buf.granted \in Nat /\ buf.accessed \in Nat
      /\ buf.data \in Seq(Bytes \cup {Lost}) /\ n \in Nat
  BY BufferFields, BufferAssumption DEF BufferFits, Used
<1>2. buf.accessed + n <= Used
  BY <1>1 DEF BufferRead, Accessible
<1>3. CASE buf.accessed + n <= buf.size
  <2> DEFINE a == buf.accessed + n
  <2>1. buf' = [buf EXCEPT !.accessed = a] /\ Fine'
        /\ returned' = SubSeq(buf.data, buf.accessed + 1, a)
    BY <1>3 DEF BufferRead, Returns, Fine
  <2>2. a \in Nat /\ a <= Used
    BY <1>1, <1>2
  <2> HIDE DEF a
  <2>3. buf' = [buf EXCEPT !.data = buf.data, !.accessed = a, !.granted = buf.granted]
    BY <2>1 DEF BufferInv, BufferTypes
  <2>4. BufferInv' /\ BufferStaysInside'
    <3> DEFINE data == buf.data
               g == buf.granted
    <3>1. /\ data \in Seq(Bytes \cup {Lost}) /\ g \in Nat /\ Len(data) <= TopBit
          /\ a <= Len(data) /\ (~buf.large => Len(data) + g <= buf.size)
          /\ buf' = [buf EXCEPT !.data = data, !.accessed = a, !.granted = g]
      BY <1>1, <2>2, <2>3 DEF Used
    <3> HIDE DEF data, g
    <3>2. NewContents(data, a, g)
      BY <2>1, <2>2, <3>1 DEF NewContents
    <3> QED
      BY <2>1, <2>2, <3>2, ContentsKeep
  <2>5. BuffersAreObjects => Stream!Read(n)
    <3>1. buf' \in BufferTypes /\ buf'.data = buf.data /\ buf'.accessed = a
      BY <1>1, <2>2, <2>3 DEF BufferInv, BufferTypes
    <3> QED
      BY <1>2, <2>1, <3>1 DEF Stream!Read, BuffersAreObjects, a, Used
  <2> QED
    BY <2>4, <2>5 DEF BufferServes, Stream!Next
<1>4. CASE ~(buf.accessed + n <= buf.size)
  <2>1. buf' = buf /\ fault' = "buffer_read"
    BY <1>4 DEF BufferRead, Stray
  <2>2. ~buf.large => Used + buf.granted <= buf.size
    BY <1>1
  <2>3. BufferInv'
    BY <2>1 DEF BufferInv
  <2>4. BufferStaysInside' /\ ~Fine'
    BY <2>1, <2>2 DEF BufferStaysInside, Fine, Used
  <2> QED
    BY <2>3, <2>4 DEF BufferServes
<1> QED
  BY <1>3, <1>4

\* The bytes before the i-th, and those behind the next n.
LEMMA WithoutFits ==
  ASSUME BufferInv, buf # None
  PROVE  LET front == Without(0, buf.accessed)
             back == Without(buf.accessed, Accessible)
         IN  /\ front = SubSeq(buf.data, buf.accessed + 1, Used)
             /\ back = SubSeq(buf.data, 1, buf.accessed)
             /\ front \in Seq(Bytes \cup {Lost}) /\ Len(front) <= Used
             /\ back \in Seq(Bytes \cup {Lost}) /\ Len(back) = buf.accessed
<1> DEFINE s == buf.data
           n == Len(buf.data)
           a == buf.accessed
           x == SubSeq(s, a + 1, n)
           y == SubSeq(s, 1, a)
<1>1. s \in Seq(Bytes \cup {Lost}) /\ n \in Nat /\ a \in Nat /\ a <= n /\ Used = n
  BY BufferFields DEF BufferFits, Used
<1>2. x \in Seq(Bytes \cup {Lost}) /\ Len(x) = n + 1 - (a + 1)
  BY <1>1, PartOf
<1>3. y \in Seq(Bytes \cup {Lost}) /\ Len(y) = a + 1 - 1
  BY <1>1, PartOf
<1>4. SubSeq(s, 1, 0) = <<>> /\ SubSeq(s, n + 1, n) = <<>>
  <2>1. SubSeq(s, 1, 0) \in Seq(Bytes \cup {Lost}) /\ Len(SubSeq(s, 1, 0)) = 0 + 1 - 1
    BY <1>1, PartOf
  <2>2. SubSeq(s, n + 1, n) \in Seq(Bytes \cup {Lost}) /\ Len(SubSeq(s, n + 1, n)) = n + 1 - (n + 1)
    BY <1>1, PartOf
  <2> QED
    BY <1>1, <2>1, <2>2, EmptySeq
<1>5. Without(0, a) = SubSeq(s, 1, 0) \o x
  <2>1. 0 + a + 1 = a + 1
    BY <1>1
  <2> QED
    BY <1>1, <2>1 DEF Without
<1>6. Without(a, Accessible) = y \o SubSeq(s, n + 1, n)
  <2>1. a + Accessible + 1 = n + 1
    BY <1>1 DEF Accessible
  <2> QED
    BY <1>1, <2>1 DEF Without
<1> HIDE DEF x, y, s, n, a
<1>7. <<>> \o x = x /\ y \o <<>> = y
  BY <1>2, <1>3, ConcatEmptySeq
<1>8. n + 1 - (a + 1) <= n /\ a + 1 - 1 = a
  BY <1>1
<1> QED
  BY <1>1, <1>2, <1>3, <1>4, <1>5, <1>6, <1>7, <1>8 DEF x, y, s, n, a

LEMMA RemoveServes ==
  ASSUME BufferInv, buf # None, Fine, BufferClearAccessed \/ BufferClearUnaccessed
  PROVE  BufferServes
<1> DEFINE front == Without(0, buf.accessed)
           back == Without(buf.accessed, Accessible)
           u == Used
           g == buf.granted
           z == buf.size
           a == buf.accessed
<1>1. /\ front = SubSeq(buf.data, a + 1, u)
      /\ back = SubSeq(buf.data, 1, a)
      /\ front \in Seq(Bytes \cup {Lost}) /\ Len(front) <= u
      /\ back \in Seq(Bytes \cup {Lost}) /\ Len(back) = a
  BY WithoutFits
<1>2. /\ u \in Nat /\ u <= TopBit /\ (~buf.large => u + g <= z)
      /\ z \in Nat /\ g \in Nat /\ a \in Nat /\ a <= u
  BY BufferFields DEF BufferFits, Used
<1>3. Len(front) \in Nat /\ TopBit \in Nat
  BY <1>1, LenProperties, Limits
<1>4. ASSUME NEW function, function \in {"buffer_clear_accessed", "buffer_clear_unaccessed"},
             u >= z, Stray(function), buf' = buf
      PROVE  BufferServes
  <2>1. BufferInv'
    BY <1>4 DEF BufferInv
  <2>2. BufferStaysInside' /\ ~Fine'
    BY <1>2, <1>4 DEF BufferStaysInside, Fine, Used, Stray
  <2> QED
    BY <2>1, <2>2 DEF BufferServes
<1>5. CASE BufferClearAccessed
  <2>1. CASE u < z
    <3>1. buf' = [buf EXCEPT !.data = front, !.accessed = 0] /\ Fine' /\ returned' = None
      BY <1>5, <2>1 DEF BufferClearAccessed, BufferRemove, Returns, Fine
    <3> HIDE DEF front, back
    <3>2. NewContents(front, 0, g)
      <4> DEFINE k == Len(front)
      <4>1. k \in Nat /\ k <= u
        BY <1>1, <1>3
      <4>2. buf' = [buf EXCEPT !.data = front, !.accessed = 0, !.granted = g]
        BY <3>1 DEF BufferInv, BufferTypes
      <4> HIDE DEF k, u, g, z
      <4>3. k <= TopBit /\ 0 <= k /\ (~buf.large => k + g <= z)
        BY <1>2, <1>3, <4>1
      <4> QED
        BY <1>1, <1>2, <4>2, <4>3 DEF NewContents, k, z
    <3>3. BufferInv' /\ BufferStaysInside'
      BY <3>1, <3>2, ContentsKeep
    <3>4. BuffersAreObjects => Stream!DropRead
      <4>1. buf' \in BufferTypes /\ buf'.data = front /\ buf'.accessed = 0
        BY <1>1, <3>1 DEF BufferInv, BufferTypes
      <4> QED
        BY <1>1, <4>1 DEF Stream!DropRead, BuffersAreObjects, Used
    <3> QED
      BY <3>1, <3>3, <3>4, SilentCalls DEF BufferServes, Stream!Next
  <2>2. CASE ~(u < z)
    <3>1. u >= z /\ Stray("buffer_clear_accessed") /\ buf' = buf
      BY <1>2, <1>5, <2>2 DEF BufferClearAccessed, BufferRemove
    <3> QED
      BY <1>4, <3>1
  <2> QED
    BY <2>1, <2>2
<1>6. CASE BufferClearUnaccessed
  <2>1. CASE u < z
    <3>1. buf' = [buf EXCEPT !.data = back, !.accessed = a] /\ Fine' /\ returned' = None
      BY <1>6, <2>1 DEF BufferClearUnaccessed, BufferRemove, Returns, Fine
    <3> HIDE DEF front, back
    <3>2. NewContents(back, a, g)
      <4> DEFINE k == Len(back)
      <4>1. k \in Nat /\ k <= u /\ a <= k
        BY <1>1, <1>2
      <4>2. buf' = [buf EXCEPT !.data = back, !.accessed = a, !.granted = g]
        BY <3>1 DEF BufferInv, BufferTypes
      <4> HIDE DEF k, u, g, z, a
      <4>3. k <= TopBit /\ a <= k /\ (~buf.large => k + g <= z)
        BY <1>2, <1>3, <4>1
      <4> QED
        BY <1>1, <1>2, <4>2, <4>3 DEF NewContents, k, z
    <3>3. BufferInv' /\ BufferStaysInside'
      BY <3>1, <3>2, ContentsKeep
    <3>4. BuffersAreObjects => Stream!DropUnread
      <4>1. buf' \in BufferTypes /\ buf'.data = back /\ buf'.accessed = a
        BY <1>1, <1>2, <3>1 DEF BufferInv, BufferTypes
      <4> QED
        BY <1>1, <4>1 DEF Stream!DropUnread, BuffersAreObjects
    <3> QED
      BY <3>1, <3>3, <3>4, SilentCalls DEF BufferServes, Stream!Next
  <2>2. CASE ~(u < z)
    <3>1. u >= z /\ Stray("buffer_clear_unaccessed") /\ buf' = buf
      BY <1>2, <1>6, <2>2 DEF BufferClearUnaccessed, BufferRemove
    <3> QED
      BY <1>4, <3>1
  <2> QED
    BY <2>1, <2>2
<1> QED
  BY <1>5, <1>6

LEMMA ClearServes ==
  ASSUME BufferInv, buf # None, Fine, BufferClear
  PROVE  BufferServes
<1> DEFINE g == buf.granted
<1>1. buf' = [buf EXCEPT !.data = <<>>, !.accessed = 0] /\ Fine' /\ returned' = None
  BY DEF BufferClear, Returns, Fine
<1>2. /\ Used \in Nat /\ (~buf.large => Used + g <= buf.size)
      /\ buf.size \in Nat /\ g \in Nat
  BY BufferFields DEF BufferFits
<1>3. NewContents(<<>>, 0, g)
  <2>1. <<>> \in Seq(Bytes \cup {Lost}) /\ Len(<<>>) = 0
    BY EmptySeq
  <2>2. buf' = [buf EXCEPT !.data = <<>>, !.accessed = 0, !.granted = g]
    BY <1>1 DEF BufferInv, BufferTypes
  <2>3. 0 <= TopBit /\ (~buf.large => 0 + g <= buf.size)
    BY <1>2, Limits
  <2> HIDE DEF g
  <2> QED
    BY <1>2, <2>1, <2>2, <2>3 DEF NewContents
<1>4. BufferInv' /\ BufferStaysInside'
  BY <1>1, <1>3, ContentsKeep
<1>5. BuffersAreObjects => Stream!Empty
  <2>1. buf' \in BufferTypes /\ buf'.data = <<>> /\ buf'.accessed = 0
    BY <1>1, EmptySeq DEF BufferInv, BufferTypes
  <2> QED
    BY <2>1 DEF Stream!Empty, BuffersAreObjects
<1> QED
  BY <1>1, <1>4, <1>5, SilentCalls DEF BufferServes, Stream!Next

\* A new buffer, empty or with a copy of what another one holds.
LEMMA NewFits ==
  ASSUME NEW data \in Seq(Bytes \cup {Lost}), Len(data) <= TopBit, NEW a \in Nat, a <= Len(data)
  PROVE  LET new == NewBuffer(data, a, Len(data))
         IN  /\ new = [data |-> data, accessed |-> a, granted |-> 0, large |-> FALSE,
                       size |-> new.size]
             /\ BufferFits(data, a, 0, new.size, FALSE)
<1> DEFINE n == Len(data)
           nice == NiceSize(Wrap(n), BufferDefault)
<1>1. n \in Nat /\ n < UIntRange /\ n <= TopBit
  BY LenProperties, Limits
<1>2. Wrap(n) = n
  BY <1>1, Wraps
<1>3. /\ nice \in Nat /\ IsPower(nice) /\ n <= nice
      /\ BufferDefault <= nice /\ nice <= TopBit
  BY <1>1, <1>2, BufferAssumption, NiceSizeFits
<1>4. NewBuffer(data, a, n) = [data |-> data, accessed |-> a, granted |-> 0, large |-> FALSE,
                            size |-> nice]
  BY DEF NewBuffer
<1> HIDE DEF nice, n
<1>5. n + 0 <= nice
  BY <1>1, <1>3
<1>6. BufferFits(data, a, 0, nice, FALSE)
  BY <1>1, <1>3, <1>5 DEF BufferFits, n
<1> DEFINE new == NewBuffer(data, a, n)
<1>7. new.size = nice /\ new = [data |-> data, accessed |-> a, granted |-> 0, large |-> FALSE,
                                size |-> nice]
  BY <1>4
<1> HIDE DEF new
<1> QED
  BY <1>6, <1>7 DEF new, n

LEMMA CloneServes ==
  ASSUME BufferInv, buf # None, Fine, NEW rewind \in BOOLEAN, BufferClone(rewind)
  PROVE  BufferServes
<1> DEFINE a == IF rewind THEN 0 ELSE buf.accessed
           new == NewBuffer(buf.data, a, Used)
           u == Used
<1>1. /\ u \in Nat /\ u <= TopBit /\ (~buf.large => u + buf.granted <= buf.size)
      /\ buf.size \in Nat /\ buf.granted \in Nat /\ buf.accessed \in Nat
      /\ buf.accessed <= Len(buf.data)
      /\ buf.data \in Seq(Bytes \cup {Lost}) /\ Len(buf.data) = u /\ buf.large \in BOOLEAN
  BY BufferFields DEF BufferFits, Used
<1>2. CASE buf' = buf /\ returned' = Failed /\ fault' = fault
  <2>1. BufferInv' /\ BufferStaysInside'
    BY <1>2, BufferRests DEF Fine
  <2>2. BuffersAreObjects => Stream!Next
    BY <1>2, StreamKeeps
  <2> QED
    BY <2>1, <2>2 DEF BufferServes
<1>3. CASE buf' = new /\ returned' = None /\ fault' = fault
  <2>1. a \in Nat /\ a <= Len(buf.data)
    BY <1>1
  <2>2. /\ new = [data |-> buf.data, accessed |-> a, granted |-> 0, large |-> FALSE,
                  size |-> new.size]
        /\ BufferFits(buf.data, a, 0, new.size, FALSE)
    <3> DEFINE data == buf.data
    <3>1. data \in Seq(Bytes \cup {Lost}) /\ Len(data) <= TopBit /\ a \in Nat /\ a <= Len(data)
      BY <1>1, <2>1
    <3>2. Used = Len(data)
      BY DEF Used
    <3> HIDE DEF data, a
    <3> QED
      BY <3>1, <3>2, NewFits DEF data
  <2> HIDE DEF new, a
  <2> DEFINE size == new.size
  <2>3. Fine' /\ buf' = [data |-> buf.data, accessed |-> a, granted |-> 0, size |-> size,
                         large |-> FALSE]
    BY <1>3, <2>2 DEF Fine
  <2>4. BufferFits(buf.data, a, 0, size, FALSE)
    BY <2>2
  <2> HIDE DEF size
  <2>5. BufferInv' /\ BufferStaysInside'
    BY <2>3, <2>4, BufferMade
  <2>6. BuffersAreObjects => Stream!Rewind \/ Stream!Keep
    <3>1. buf' \in BufferTypes /\ buf'.data = buf.data /\ buf'.accessed = a
      BY <2>3, <2>4 DEF BufferFits, BufferTypes
    <3> QED
      BY <3>1 DEF Stream!Rewind, Stream!Keep, BuffersAreObjects, a
  <2> QED
    BY <1>3, <2>5, <2>6, SilentCalls DEF BufferServes, Stream!Next
<1>4. CASE ~(u <= buf.size) /\ Stray("buffer_clone") /\ buf' = buf
  <2>1. BufferInv'
    BY <1>4 DEF BufferInv
  <2>2. BufferStaysInside' /\ ~Fine'
    BY <1>1, <1>4 DEF BufferStaysInside, Fine, Used, Stray
  <2> QED
    BY <2>1, <2>2 DEF BufferServes
<1> QED
  BY <1>2, <1>3, <1>4 DEF BufferClone, Returns

LEMMA BufferInitKeeps ==
  ASSUME buf = None, Fine, NEW n \in 0..UIntRange + 1, BufferInit(n)
  PROVE  BufferInv' /\ BufferStaysInside'
<1> DEFINE nice == NiceSize(Wrap(n), BufferDefault)
           new == NewBuffer(<<>>, 0, n)
<1>1. n \in Nat /\ Wrap(n) \in Nat /\ Wrap(n) < UIntRange
  BY Limits, Wraps
<1>2. CASE NeverNice(Wrap(n), BufferDefault)
  BY <1>2 DEF BufferInit, Stray, BufferInv, BufferStaysInside
<1>3. CASE ~NeverNice(Wrap(n), BufferDefault)
  <2>1. Wrap(n) <= TopBit
    BY <1>1, <1>3, Limits, BufferAssumption DEF NeverNice
  <2>2. /\ nice \in Nat /\ IsPower(nice) /\ Wrap(n) <= nice
        /\ BufferDefault <= nice /\ nice <= TopBit
    BY <1>1, <2>1, BufferAssumption, NiceSizeFits
  <2>3. Fine' /\ (buf' = new \/ buf' = None)
    BY <1>3 DEF BufferInit, Returns, Fine
  <2>4. new = [data |-> <<>>, accessed |-> 0, granted |-> 0, size |-> nice, large |-> FALSE]
    BY DEF NewBuffer
  <2> HIDE DEF new, nice
  <2>5. BufferFits(<<>>, 0, 0, nice, FALSE)
    <3>1. <<>> \in Seq(Bytes \cup {Lost}) /\ Len(<<>>) = 0
      BY EmptySeq
    <3> QED
      BY <2>2, <3>1, Limits DEF BufferFits
  <2>6. CASE buf' = new
    BY <2>3, <2>4, <2>5, <2>6, BufferMade
  <2>7. CASE buf' = None
    BY <2>3, <2>7 DEF BufferInv, BufferStaysInside, Fine
  <2> QED
    BY <2>3, <2>6, <2>7
<1> QED
  BY <1>2, <1>3

\* Every call of a buffer keeps what it holds and grants inside its array, where
\* it does not say that it left it, and is one of a byte stream.
LEMMA BufferKeeps ==
  ASSUME BufferInv, BufferNext
  PROVE  /\ BufferInv' /\ BufferStaysInside'
         /\ BuffersAreObjects /\ buf # None /\ Fine' /\ BufferWhole' => Stream!Next
<1>1. Fine
  BY DEF BufferNext
<1>2. CASE buf = None
  <2>1. ASSUME NEW n \in 0..UIntRange + 1, BufferInit(n)
        PROVE  BufferInv' /\ BufferStaysInside'
    BY <1>1, <1>2, <2>1, BufferInitKeeps
  <2> QED
    BY <1>2, <2>1 DEF BufferNext
<1>3. CASE buf # None
  <2>1. ASSUME BufferDestroy PROVE BufferServes
    <3>1. buf' = None /\ returned' = None /\ Fine'
      BY <1>1, <2>1 DEF BufferDestroy, Returns, Fine
    <3>2. BufferInv' /\ BufferStaysInside'
      BY <3>1 DEF BufferInv, BufferStaysInside, Fine
    <3>3. Stream!Empty
      BY <3>1 DEF Stream!Empty
    <3> QED
      BY <3>1, <3>2, <3>3, SilentCalls DEF BufferServes, Stream!Next
  <2>2. ASSUME NEW n \in 1..MaxWrite,
               \/ BufferPrepareWrite(n) \/ BufferRead(n)
               \/ \E b \in [1..n -> Bytes] : BufferWrite(b)
        PROVE  BufferServes
    BY <1>1, <1>3, <2>2, PrepareServes, ReadServes, WriteServes
  <2>3. ASSUME \E rewind \in BOOLEAN : BufferClone(rewind) PROVE BufferServes
    BY <1>1, <1>3, <2>3, CloneServes
  <2>4. ASSUME \/ BufferSqueeze \/ BufferClear
               \/ BufferClearAccessed \/ BufferClearUnaccessed
        PROVE  BufferServes
    BY <1>1, <1>3, <2>4, SqueezeServes, ClearServes, RemoveServes
  <2>5. ASSUME NEW n, BufferInit(n) PROVE FALSE
    BY <1>3, <2>5 DEF BufferInit
  <2>6. BufferServes
    BY <1>3, <2>1, <2>2, <2>3, <2>4, <2>5 DEF BufferNext
  <2> QED
    BY <2>6 DEF BufferServes
<1> QED
  BY <1>2, <1>3

-----------------------------------------------------------------------------
(* Memory pool *)

\* where the list goes on behind a free chunk
After(a) ==
    IF a \notin Chunks THEN a
    ELSE IF a >= pool.init THEN a + pool.chunk_size ELSE pool.links[a]

\* "way" leads through every free chunk, once, and then beyond the last one
LeadsThrough(way, next, chunks, free) ==
    /\ way \in [0..chunks -> Int]
    /\ way[0] = next
    /\ \A i \in 0..chunks - 1 : way[i] \in free /\ After(way[i]) = way[i + 1]
    /\ \A i, j \in 0..chunks - 1 : way[i] = way[j] => i = j
    /\ \A a \in free : \E i \in 0..chunks - 1 : way[i] = a

PoolTypes == [size : 0..MaxPool, chunk_size : Nat, init : Nat, next : Int, chunks : Nat,
              links : [0..MaxPool -> Int], held : SUBSET Int, extra : Nat]

\* Only chunks that have been linked are held, and no link of a free one leads
\* further than to the first that has not been.
PoolInv ==
    pool # None =>
        /\ pool \in PoolTypes
        /\ Word <= pool.chunk_size
        /\ \E k \in Nat : pool.init = k * pool.chunk_size
        /\ pool.held \subseteq Chunks
        /\ \A a \in pool.held : a < pool.init
        /\ pool.next <= pool.init
        /\ \A a \in Chunks \ pool.held : a < pool.init => pool.links[a] <= pool.init
        /\ \E way : LeadsThrough(way, pool.next, pool.chunks, Chunks \ pool.held)

\* Multiples of a size are at least one size apart.
LEMMA MultiplesApart ==
  ASSUME NEW c \in Nat, NEW i \in Nat, NEW j \in Nat
  PROVE  /\ i * c \in Nat /\ (i + 1) * c = i * c + c
         /\ i < j => i * c + c <= j * c
         /\ i * c < j * c => i < j
<1>1. i * c \in Nat /\ j * c \in Nat /\ (i + 1) * c = i * c + c
  OBVIOUS
<1>2. ASSUME NEW a \in Nat, NEW b \in Nat, a < b PROVE a * c + c <= b * c
  <2>1. b - (a + 1) \in Nat
    BY <1>2
  <2>2. (b - (a + 1)) * c \in Nat
    BY <2>1
  <2>3. b * c = (b - (a + 1)) * c + (a * c + c)
    OBVIOUS
  <2>4. a * c \in Nat /\ b * c \in Nat
    OBVIOUS
  <2> DEFINE x == (b - (a + 1)) * c
             y == a * c
             z == b * c
  <2> HIDE DEF x, y, z
  <2>5. y + c <= z
    BY <2>2, <2>3, <2>4 DEF x, y, z
  <2> QED
    BY <2>5 DEF y, z
<1>3. i < j => i * c + c <= j * c
  BY <1>2
<1>4. i * c < j * c => i < j
  <2> SUFFICES ASSUME i * c < j * c, ~(i < j) PROVE FALSE
    OBVIOUS
  <2>1. CASE i = j
    BY <1>1, <2>1
  <2>2. CASE j < i
    <3>1. j * c + c <= i * c
      BY <1>2, <2>2
    <3> DEFINE x == i * c
               y == j * c
    <3>2. x \in Nat /\ y \in Nat /\ x < y /\ y + c <= x
      BY <1>1, <3>1
    <3> HIDE DEF x, y
    <3> QED
      BY <3>2
  <2> QED
    BY <2>1, <2>2
<1> QED
  BY <1>1, <1>3, <1>4

\* What remains behind the last multiple.
LEMMA Remainder ==
  ASSUME NEW s \in Nat, NEW c \in Nat, c > 0
  PROVE  /\ s \div c \in Nat /\ (s \div c) * c <= s
         /\ \A k \in Nat, x \in Nat : x = k * c /\ x < s /\ s < x + c => s % c = s - x
<1> DEFINE q == s \div c
           r == s % c
<1>1. q \in Nat /\ r \in Nat /\ r < c /\ s = c * q + r
  OBVIOUS
<1>2. c * q = q * c /\ q * c \in Nat
  BY <1>1
<1> HIDE DEF q, r
<1>3. q * c <= s
  BY <1>1, <1>2
<1>4. ASSUME NEW k \in Nat, NEW x \in Nat, x = k * c, x < s, s < x + c PROVE r = s - x
  <2> DEFINE y == q * c
  <2>1. y \in Nat /\ (k < q => x + c <= y) /\ (q < k => y + c <= x)
    BY <1>1, <1>4, MultiplesApart
  <2>2. x < s /\ s < x + c /\ s = y + r
    BY <1>1, <1>2, <1>4
  <2>3. k = q => x = y
    BY <1>4
  <2> HIDE DEF y
  <2>4. ~(k < q) /\ ~(q < k)
    BY <1>1, <2>1, <2>2
  <2>5. x = y
    BY <1>1, <2>3, <2>4
  <2> QED
    BY <1>1, <2>1, <2>2, <2>5
<1> QED
  BY <1>1, <1>3, <1>4 DEF q, r

\* A chunk lies in the memory, on a multiple of its size.
LEMMA ChunksFit ==
  ASSUME pool \in PoolTypes, Word <= pool.chunk_size
  PROVE  /\ pool.chunk_size \in Nat /\ pool.chunk_size >= 1 /\ pool.size \in Nat
         /\ pool.size <= MaxPool /\ Word \in Nat /\ Word >= 1
         /\ \A a \in Chunks : /\ a \in Nat /\ a + pool.chunk_size <= pool.size
                              /\ a \in 0..MaxPool
                              /\ \E k \in Nat : a = k * pool.chunk_size
<1> DEFINE c == pool.chunk_size
           s == pool.size
           n == s \div c
<1>1. c \in Nat /\ c >= 1 /\ s \in Nat /\ s <= MaxPool /\ Word \in Nat /\ Word >= 1
      /\ MaxPool \in Nat
  BY PoolAssumption DEF PoolTypes
<1> HIDE DEF c, s
<1>2. n \in Nat /\ n * c <= s
  BY <1>1, Remainder
<1>3. Chunks = {k * c : k \in 0..n - 1}
  BY DEF Chunks, c, s
<1> HIDE DEF n
<1>4. ASSUME NEW k \in 0..n - 1 PROVE k * c \in Nat /\ k * c + c <= s /\ k * c \in 0..MaxPool
  <2>1. k \in Nat /\ k < n
    BY <1>2
  <2>2. k * c \in Nat /\ k * c + c <= n * c
    BY <1>1, <1>2, <2>1, MultiplesApart
  <2> DEFINE x == k * c
             y == n * c
  <2>3. x \in Nat /\ x + c <= y /\ y <= s /\ y \in Nat
    BY <1>1, <1>2, <2>2, MultiplesApart
  <2> HIDE DEF x, y
  <2>4. x \in Nat /\ x + c <= s /\ x \in 0..MaxPool
    BY <1>1, <2>3
  <2> QED
    BY <2>4 DEF x
<1>5. \A a \in Chunks : a \in Nat /\ a + c <= s /\ a \in 0..MaxPool /\ \E k \in Nat : a = k * c
  <2> SUFFICES ASSUME NEW k \in 0..n - 1
               PROVE  k * c \in Nat /\ k * c + c <= s /\ k * c \in 0..MaxPool /\ k \in Nat
    BY <1>3
  <2> QED
    BY <1>2, <1>4
<1> QED
  BY <1>1, <1>5 DEF c, s

\* With each allocation one more chunk is linked, without a change to the way.
LEMMA LinkedKeeps ==
  ASSUME PoolInv, pool # None, ~(pool.init < pool.size /\ pool.init + Word > pool.size)
  PROVE  LET p == Linked
         IN  /\ p \in PoolTypes /\ p.size = pool.size /\ p.chunk_size = pool.chunk_size
             /\ p.next = pool.next /\ p.chunks = pool.chunks /\ p.held = pool.held
             /\ p.extra = pool.extra
             /\ pool.init <= p.init /\ \E k \in Nat : p.init = k * pool.chunk_size
             /\ pool.next \in Chunks => pool.next < p.init
             /\ \A a \in Chunks :
                   /\ a >= p.init => After(a) = a + pool.chunk_size
                   /\ a < p.init => After(a) = p.links[a]
                   /\ a < pool.init => p.links[a] = pool.links[a]
                   /\ a >= pool.init /\ a < p.init => p.links[a] = p.init
<1> DEFINE p == Linked
           c == pool.chunk_size
           s == pool.size
           b == pool.init
<1>1. /\ c \in Nat /\ c >= 1 /\ s \in Nat /\ s <= MaxPool /\ Word \in Nat /\ Word >= 1
      /\ MaxPool \in Nat
      /\ \A a \in Chunks : a \in Nat /\ a + c <= s /\ a \in 0..MaxPool
                           /\ \E k \in Nat : a = k * c
  BY ChunksFit, PoolAssumption DEF PoolInv
<1>2. PICK k \in Nat : b = k * c
  BY DEF PoolInv
<1>3. b \in Nat /\ pool \in PoolTypes /\ pool.next \in Int /\ pool.next <= b
      /\ pool.links \in [0..MaxPool -> Int]
  BY DEF PoolInv, PoolTypes
<1>4. CASE b < s
  <2> DEFINE links == [pool.links EXCEPT ![b] = b + c]
  <2>1. p = [pool EXCEPT !.links = links, !.init = b + c]
    BY <1>3, <1>4 DEF Linked, PoolTypes
  <2>2. b + c \in Nat /\ b \in 0..MaxPool
    BY <1>1, <1>3, <1>4
  <2>3. links \in [0..MaxPool -> Int] /\ links[b] = b + c
        /\ \A a \in 0..MaxPool : a # b => links[a] = pool.links[a]
    <3> DEFINE l == pool.links
               x == b
               v == b + c
    <3>1. l \in [0..MaxPool -> Int] /\ x \in 0..MaxPool /\ v \in Int
      BY <1>3, <2>2
    <3> HIDE DEF l, x, v
    <3>2. /\ [l EXCEPT ![x] = v] \in [0..MaxPool -> Int] /\ [l EXCEPT ![x] = v][x] = v
          /\ \A a \in 0..MaxPool : a # x => [l EXCEPT ![x] = v][a] = l[a]
      BY <3>1
    <3> QED
      BY <3>2 DEF l, x, v
  <2> HIDE DEF links, p
  <2>4. /\ p \in PoolTypes /\ p.size = s /\ p.chunk_size = c /\ p.links = links
        /\ p.next = pool.next /\ p.chunks = pool.chunks /\ p.held = pool.held
        /\ p.extra = pool.extra /\ p.init = b + c
    BY <1>3, <2>1, <2>2, <2>3 DEF PoolTypes
  <2>5. (k + 1) * c = b + c
    BY <1>1, <1>2, MultiplesApart
  <2>6. ASSUME NEW a \in Chunks
        PROVE  /\ a >= b + c => After(a) = a + c
               /\ a < b + c => After(a) = links[a]
               /\ a < b => links[a] = pool.links[a]
               /\ a >= b /\ a < b + c => links[a] = b + c
    <3>1. PICK j \in Nat : a = j * c
      BY <1>1
    <3>2. a \in Nat /\ a \in 0..MaxPool
      BY <1>1
    <3>3. a > b => a >= b + c
      <4>1. k * c < j * c => k < j
        BY <1>1, MultiplesApart
      <4>2. k < j => k * c + c <= j * c
        BY <1>1, MultiplesApart
      <4> HIDE DEF b, c
      <4> QED
        BY <1>1, <1>2, <1>3, <3>1, <3>2, <4>1, <4>2
    <3>4. After(a) = IF a >= b THEN a + c ELSE pool.links[a]
      BY DEF After
    <3> HIDE DEF b, c
    <3>5. CASE a = b
      BY <1>1, <1>3, <2>3, <3>2, <3>4, <3>5
    <3>6. CASE a < b
      <4>3. b \in Nat /\ c \in Nat
        BY <1>1, <1>3
      <4>1. a # b /\ ~(a >= b) /\ ~(a >= b + c)
        BY <3>2, <3>6, <4>3
      <4>2. links[a] = pool.links[a]
        BY <2>3, <3>2, <4>1
      <4> QED
        BY <3>4, <4>1, <4>2
    <3>7. CASE a > b
      BY <1>1, <1>3, <3>2, <3>3, <3>4, <3>7
    <3> QED
      BY <1>3, <3>2, <3>5, <3>6, <3>7
  <2>7. pool.next < b + c /\ b <= b + c
    BY <1>1, <1>3
  <2>8. k + 1 \in Nat
    OBVIOUS
  <2> QED
    BY <2>4, <2>5, <2>6, <2>7, <2>8 DEF p
<1>5. CASE ~(b < s)
  <2>1. p = pool
    BY <1>5 DEF Linked
  <2>2. ASSUME NEW a \in Chunks PROVE a < b /\ After(a) = pool.links[a] /\ ~(a >= b)
    <3>1. a \in Nat /\ a + c <= s
      BY <1>1
    <3> DEFINE z == pool.links[a]
    <3>2. After(a) = IF a >= b THEN a + c ELSE z
      BY DEF After
    <3> HIDE DEF z, b, c, s
    <3>3. a < b /\ ~(a >= b)
      BY <1>1, <1>3, <1>5, <3>1
    <3> QED
      BY <3>2, <3>3 DEF z
  <2> HIDE DEF p
  <2> QED
    BY <1>2, <1>3, <2>1, <2>2 DEF p
<1> QED
  BY <1>4, <1>5

\* "way" leads through every chunk that is free in p, once.
PoolWay(p, way) ==
    /\ way \in [0..p.chunks -> Int]
    /\ way[0] = p.next
    /\ \A i \in 0..p.chunks - 1 :
          /\ way[i] \in Chunks \ p.held
          /\ way[i] >= p.init => way[i + 1] = way[i] + p.chunk_size
          /\ way[i] < p.init => way[i + 1] = p.links[way[i]]
    /\ \A i, j \in 0..p.chunks - 1 : way[i] = way[j] => i = j
    /\ \A a \in Chunks \ p.held : \E i \in 0..p.chunks - 1 : way[i] = a

\* A pool with the same memory, and another way through its free chunks.
PoolChange(p) ==
    /\ p \in PoolTypes /\ p.size = pool.size /\ p.chunk_size = pool.chunk_size
    /\ Word <= p.chunk_size
    /\ \E k \in Nat : p.init = k * p.chunk_size
    /\ p.held \subseteq Chunks
    /\ \A a \in p.held : a < p.init
    /\ p.next <= p.init
    /\ \A a \in Chunks \ p.held : a < p.init => p.links[a] <= p.init
    /\ \E way : PoolWay(p, way)

LEMMA PoolMade ==
  ASSUME PoolInv, pool # None, NEW p, PoolChange(p), pool' = p
  PROVE  PoolInv'
<1>1. Chunks' = Chunks
  BY DEF PoolChange, Chunks
<1>2. \A a \in Chunks : a \in Int
  BY ChunksFit DEF PoolInv
<1>3. PICK way : PoolWay(p, way)
  BY DEF PoolChange
<1>4. ASSUME NEW i \in 0..p.chunks - 1 PROVE After(way[i])' = way[i + 1]
  <2> DEFINE a == way[i]
             z == p.links[a]
  <2>5. p.init \in Int
    BY DEF PoolChange, PoolTypes
  <2>6. a \in Chunks
    BY <1>3 DEF PoolWay
  <2>1. a \in Chunks /\ a \in Int /\ p.init \in Int
    BY <1>2, <2>5, <2>6
  <2>2. After(a)' = IF a >= p.init THEN a + p.chunk_size ELSE z
    BY <1>1, <2>1 DEF After
  <2>3. (a >= p.init => way[i + 1] = a + p.chunk_size) /\ (a < p.init => way[i + 1] = z)
    BY <1>3 DEF PoolWay
  <2> HIDE DEF a, z
  <2>4. After(a)' = way[i + 1]
    BY <2>1, <2>2, <2>3
  <2> QED
    BY <2>4 DEF a
<1>5. LeadsThrough(way, pool.next, pool.chunks, Chunks \ pool.held)'
  BY <1>1, <1>3, <1>4 DEF LeadsThrough, PoolWay
<1> QED
  BY <1>1, <1>5 DEF PoolInv, PoolChange

\* What PoolInv gives for a pool.
LEMMA PoolFields ==
  ASSUME PoolInv, pool # None
  PROVE  /\ pool \in PoolTypes /\ Word <= pool.chunk_size
         /\ pool.init \in Nat /\ pool.next \in Int /\ pool.chunks \in Nat
         /\ pool.links \in [0..MaxPool -> Int] /\ pool.held \subseteq Chunks
         /\ pool.extra \in Nat /\ pool.chunk_size \in Nat
         /\ \A a \in Chunks : a \in Int /\ a \in 0..MaxPool
         /\ pool.next <= pool.init
         /\ \A a \in pool.held : a < pool.init
         /\ \A a \in Chunks \ pool.held : a < pool.init => pool.links[a] <= pool.init
         /\ \E way : LeadsThrough(way, pool.next, pool.chunks, Chunks \ pool.held)
<1>1. pool \in PoolTypes /\ Word <= pool.chunk_size
  BY DEF PoolInv
<1>2. \A a \in Chunks : a \in Int /\ a \in 0..MaxPool
  BY <1>1, ChunksFit
<1> QED
  BY <1>1, <1>2 DEF PoolInv, PoolTypes

\* The next chunk of a pool that has one is free.
LEMMA NextIsFree ==
  ASSUME PoolInv, pool # None, pool.chunks # 0
  PROVE  pool.next \in Chunks \ pool.held
<1>1. PICK way : LeadsThrough(way, pool.next, pool.chunks, Chunks \ pool.held)
  BY PoolFields
<1>2. 0 \in 0..pool.chunks - 1
  BY PoolFields
<1> QED
  BY <1>1, <1>2 DEF LeadsThrough

\* Linking without an allocation.
LEMMA ExtraKeeps ==
  ASSUME PoolInv, pool # None, ~(pool.init < pool.size /\ pool.init + Word > pool.size),
         NEW e \in Nat, pool' = [Linked EXCEPT !.extra = e]
  PROVE  PoolInv'
<1> DEFINE p == Linked
           q == [p EXCEPT !.extra = e]
<1>1. /\ p \in PoolTypes /\ p.size = pool.size /\ p.chunk_size = pool.chunk_size
      /\ p.next = pool.next /\ p.chunks = pool.chunks /\ p.held = pool.held
      /\ p.extra = pool.extra
      /\ pool.init <= p.init /\ \E k \in Nat : p.init = k * pool.chunk_size
      /\ pool.next \in Chunks => pool.next < p.init
      /\ \A a \in Chunks :
            /\ a >= p.init => After(a) = a + pool.chunk_size
            /\ a < p.init => After(a) = p.links[a]
            /\ a < pool.init => p.links[a] = pool.links[a]
            /\ a >= pool.init /\ a < p.init => p.links[a] = p.init
  BY LinkedKeeps
<1>2. /\ pool.init \in Nat /\ pool.next \in Int /\ pool.next <= pool.init
      /\ Word <= pool.chunk_size /\ pool.held \subseteq Chunks /\ pool.chunks \in Nat
      /\ \A a \in Chunks : a \in Int
      /\ \A a \in pool.held : a < pool.init
      /\ \A a \in Chunks \ pool.held : a < pool.init => pool.links[a] <= pool.init
  BY PoolFields
<1> HIDE DEF p
<1>3. /\ q \in PoolTypes /\ q.size = p.size /\ q.chunk_size = p.chunk_size /\ q.init = p.init
      /\ q.next = p.next /\ q.chunks = p.chunks /\ q.held = p.held /\ q.links = p.links
  BY <1>1 DEF PoolTypes
<1>4. p.init \in Nat
  BY <1>1 DEF PoolTypes
<1> HIDE DEF q
<1>5. q.next <= q.init /\ \A a \in q.held : a < q.init
  BY <1>1, <1>2, <1>3, <1>4
<1>6. ASSUME NEW a \in Chunks \ q.held, a < q.init PROVE q.links[a] <= q.init
  <2>1. CASE a < pool.init
    <3>1. q.links[a] = pool.links[a] /\ pool.links[a] <= pool.init
      BY <1>1, <1>2, <1>3, <2>1
    <3>2. pool.links[a] \in Int
      BY PoolFields
    <3> QED
      BY <1>1, <1>2, <1>3, <1>4, <3>1, <3>2
  <2>2. CASE ~(a < pool.init)
    <3>1. a >= pool.init
      BY <1>2, <2>2
    <3>2. q.links[a] = q.init
      BY <1>1, <1>3, <1>6, <3>1
    <3> QED
      BY <1>3, <1>4, <3>2
  <2> QED
    BY <2>1, <2>2
<1>7. PICK way : LeadsThrough(way, pool.next, pool.chunks, Chunks \ pool.held)
  BY PoolFields
<1>8. ASSUME NEW i \in 0..q.chunks - 1
      PROVE  /\ way[i] \in Chunks \ q.held
             /\ way[i] >= q.init => way[i + 1] = way[i] + q.chunk_size
             /\ way[i] < q.init => way[i + 1] = q.links[way[i]]
  <2>1. way[i] \in Chunks \ q.held /\ After(way[i]) = way[i + 1]
    BY <1>1, <1>3, <1>7 DEF LeadsThrough
  <2> QED
    BY <1>1, <1>3, <2>1
<1>9. PoolWay(q, way)
  BY <1>1, <1>3, <1>7, <1>8 DEF PoolWay, LeadsThrough
<1>10. PoolChange(q)
  BY <1>1, <1>2, <1>3, <1>5, <1>6, <1>9 DEF PoolChange
<1> QED
  BY <1>10, PoolMade DEF q, p

\* An allocation takes the first chunk off the list.
LEMMA AllocKeeps ==
  ASSUME PoolInv, pool # None, ~(pool.init < pool.size /\ pool.init + Word > pool.size),
         pool.chunks # 0,
         pool' = [Linked EXCEPT !.chunks = @ - 1, !.next = Linked.links[@],
                            !.links[pool.next] = NoLink, !.held = @ \cup {pool.next}]
  PROVE  PoolInv'
<1> DEFINE p == Linked
           x == pool.next
           links == [p.links EXCEPT ![x] = NoLink]
           n == pool.chunks
           q == [p EXCEPT !.chunks = n - 1, !.next = p.links[x], !.links = links,
                          !.held = p.held \cup {x}]
<1>1. /\ p \in PoolTypes /\ p.size = pool.size /\ p.chunk_size = pool.chunk_size
      /\ p.next = pool.next /\ p.chunks = pool.chunks /\ p.held = pool.held
      /\ p.extra = pool.extra
      /\ pool.init <= p.init /\ \E k \in Nat : p.init = k * pool.chunk_size
      /\ pool.next \in Chunks => pool.next < p.init
      /\ \A a \in Chunks :
            /\ a >= p.init => After(a) = a + pool.chunk_size
            /\ a < p.init => After(a) = p.links[a]
            /\ a < pool.init => p.links[a] = pool.links[a]
            /\ a >= pool.init /\ a < p.init => p.links[a] = p.init
  BY LinkedKeeps
<1>2. /\ pool.init \in Nat /\ pool.next \in Int /\ pool.next <= pool.init
      /\ Word <= pool.chunk_size /\ pool.held \subseteq Chunks /\ pool.chunks \in Nat
      /\ \A a \in Chunks : a \in Int /\ a \in 0..MaxPool
      /\ \A a \in pool.held : a < pool.init
      /\ \A a \in Chunks \ pool.held : a < pool.init => pool.links[a] <= pool.init
  BY PoolFields
<1>3. x \in Chunks /\ x \notin pool.held /\ x < p.init
  BY <1>1, NextIsFree
<1> HIDE DEF p
<1>4. /\ links \in [0..MaxPool -> Int]
      /\ \A a \in 0..MaxPool : a # x => links[a] = p.links[a]
      /\ p.links[x] \in Int /\ p.links \in [0..MaxPool -> Int]
  <2>1. p.links \in [0..MaxPool -> Int] /\ x \in 0..MaxPool /\ NoLink \in Int
    BY <1>1, <1>2, <1>3 DEF PoolTypes, NoLink
  <2> DEFINE l == p.links
  <2> HIDE DEF l, x
  <2>2. /\ [l EXCEPT ![x] = NoLink] \in [0..MaxPool -> Int]
        /\ \A a \in 0..MaxPool : a # x => [l EXCEPT ![x] = NoLink][a] = l[a]
    BY <2>1 DEF l
  <2> QED
    BY <2>1, <2>2 DEF l
<1>5. pool' = q
  <2>1. pool' = [p EXCEPT !.chunks = @ - 1, !.next = p.links[@],
                            !.links[pool.next] = NoLink, !.held = @ \cup {pool.next}]
    BY DEF p
  <2> QED
    BY <1>1, <2>1 DEF PoolTypes
<1>6. p.init \in Nat
  BY <1>1 DEF PoolTypes
<1> HIDE DEF links
<1>7. /\ q \in PoolTypes /\ q.size = p.size /\ q.chunk_size = p.chunk_size /\ q.init = p.init
      /\ q.next = p.links[x] /\ q.chunks = n - 1 /\ q.held = p.held \cup {x} /\ q.links = links
  <2>1. n - 1 \in Nat /\ p.held \cup {x} \in SUBSET Int
    BY <1>1, <1>2
  <2> HIDE DEF n, x
  <2> QED
    BY <1>1, <1>4, <2>1 DEF PoolTypes
<1> HIDE DEF q
<1>8. ASSUME NEW a \in Chunks \ pool.held, a < p.init PROVE p.links[a] <= p.init
  <2>1. CASE a < pool.init
    <3>1. p.links[a] = pool.links[a] /\ pool.links[a] <= pool.init
      BY <1>1, <1>2, <2>1
    <3>2. pool.links[a] \in Int
      BY <1>2, PoolFields
    <3> QED
      BY <1>1, <1>2, <1>6, <3>1, <3>2
  <2>2. CASE ~(a < pool.init)
    <3>1. a >= pool.init
      BY <1>2, <2>2
    <3>2. p.links[a] = p.init
      BY <1>1, <1>8, <3>1
    <3> QED
      BY <1>6, <3>2
  <2> QED
    BY <2>1, <2>2
<1>9. q.next <= q.init /\ \A a \in q.held : a < q.init
  <2>1. ASSUME NEW a \in q.held PROVE a < q.init
    <3>1. CASE a = x
      BY <1>3, <1>7, <3>1
    <3>2. CASE a \in pool.held
      BY <1>1, <1>2, <1>6, <1>7, <3>2
    <3> QED
      BY <1>1, <1>7, <3>1, <3>2
  <2>2. q.next <= q.init
    BY <1>3, <1>7, <1>8
  <2> QED
    BY <2>1, <2>2
<1>10. ASSUME NEW a \in Chunks \ q.held
       PROVE  a \in Chunks \ pool.held /\ a # x /\ q.links[a] = p.links[a]
  BY <1>1, <1>2, <1>4, <1>7
<1>11. \A a \in Chunks \ q.held : a < q.init => q.links[a] <= q.init
  BY <1>7, <1>8, <1>10
<1>12. PICK way : LeadsThrough(way, pool.next, pool.chunks, Chunks \ pool.held)
  BY PoolFields
<1> DEFINE next == [i \in 0..n - 1 |-> way[i + 1]]
<1>13. n \in Nat /\ n # 0 /\ way \in [0..n -> Int]
  BY <1>2, <1>12 DEF LeadsThrough
<1>14. next \in [0..n - 1 -> Int] /\ \A i \in 0..n - 1 : next[i] = way[i + 1]
  <2>1. \A i \in 0..n - 1 : i + 1 \in 0..n
    BY <1>13
  <2> HIDE DEF n
  <2> QED
    BY <1>13, <2>1
<1>15. \A i \in 0..n - 1 : way[i] \in Chunks \ pool.held /\ After(way[i]) = way[i + 1]
  BY <1>12 DEF LeadsThrough
<1>16. way[0] = x /\ \A i, j \in 0..n - 1 : way[i] = way[j] => i = j
  BY <1>12 DEF LeadsThrough
<1>17. \A a \in Chunks \ pool.held : \E i \in 0..n - 1 : way[i] = a
  BY <1>12 DEF LeadsThrough
<1> HIDE DEF next, n, x
<1>18. next[0] = q.next
  <2>1. next[0] = way[0 + 1] /\ 0 \in 0..n - 1
    BY <1>13, <1>14
  <2>2. After(x) = p.links[x]
    BY <1>1, <1>3 DEF x
  <2> QED
    BY <1>7, <1>15, <1>16, <2>1, <2>2
<1>19. ASSUME NEW i \in 0..(n - 1) - 1
       PROVE  /\ next[i] \in Chunks \ q.held
              /\ next[i] >= q.init => next[i + 1] = next[i] + q.chunk_size
              /\ next[i] < q.init => next[i + 1] = q.links[next[i]]
  <2>1. i \in 0..n - 1 /\ i + 1 \in 0..n - 1 /\ 0 \in 0..n - 1 /\ i + 1 # 0
    BY <1>13
  <2> DEFINE a == way[i + 1]
             j == i + 1
  <2>2. next[i] = a /\ next[i + 1] = way[j + 1] /\ After(a) = way[j + 1]
    BY <1>14, <1>15, <2>1
  <2>3. a \in Chunks \ pool.held
    BY <1>15, <2>1
  <2>4. a # x
    BY <1>16, <2>1
  <2>5. a \in Chunks \ q.held
    BY <1>1, <1>7, <2>3, <2>4
  <2> HIDE DEF a, j
  <2>6. (a >= q.init => After(a) = a + q.chunk_size) /\ (a < q.init => After(a) = q.links[a])
    BY <1>1, <1>7, <1>10, <2>5
  <2> QED
    BY <2>2, <2>5, <2>6
<1>20. \A i, j \in 0..(n - 1) - 1 : next[i] = next[j] => i = j
  <2> SUFFICES ASSUME NEW i \in 0..(n - 1) - 1, NEW j \in 0..(n - 1) - 1, next[i] = next[j]
               PROVE  i = j
    OBVIOUS
  <2>1. /\ i \in 0..n - 1 /\ j \in 0..n - 1 /\ i + 1 \in 0..n - 1 /\ j + 1 \in 0..n - 1
        /\ i \in Int /\ j \in Int
    BY <1>13
  <2>2. i + 1 = j + 1
    BY <1>14, <1>16, <2>1
  <2> QED
    BY <2>1, <2>2
<1>21. ASSUME NEW a \in Chunks \ q.held PROVE \E i \in 0..(n - 1) - 1 : next[i] = a
  <2>1. PICK i \in 0..n - 1 : way[i] = a
    BY <1>10, <1>17
  <2>2. i # 0
    BY <1>10, <1>16, <2>1
  <2>3. i - 1 \in 0..(n - 1) - 1 /\ i - 1 \in 0..n - 1 /\ (i - 1) + 1 = i
    BY <1>13, <2>2
  <2>4. next[i - 1] = a
    BY <1>14, <2>1, <2>3
  <2> QED
    BY <2>3, <2>4
<1>22. PoolChange(q)
  <2>1. q.held \subseteq Chunks /\ Word <= q.chunk_size
        /\ \E k \in Nat : q.init = k * q.chunk_size
    BY <1>1, <1>2, <1>3, <1>7 DEF x
  <2>2. q.chunks = n - 1
    BY <1>7
  <2>3. PoolWay(q, next)
    BY <1>14, <1>18, <1>19, <1>20, <1>21, <2>2 DEF PoolWay
  <2> QED
    BY <1>1, <1>7, <1>9, <1>11, <2>1, <2>3 DEF PoolChange
<1> QED
  BY <1>5, <1>22, PoolMade


\* A freed chunk becomes the first of the list.
LEMMA FreeKeeps ==
  ASSUME PoolInv, pool # None, NEW x \in pool.held,
         pool' = [pool EXCEPT !.chunks = @ + 1, !.links[x] = pool.next, !.next = x,
                              !.held = @ \ {x}]
  PROVE  PoolInv'
<1> DEFINE n == pool.chunks
           links == [pool.links EXCEPT ![x] = pool.next]
           q == [pool EXCEPT !.chunks = n + 1, !.links = links, !.next = x,
                             !.held = pool.held \ {x}]
<1>1. /\ pool \in PoolTypes /\ Word <= pool.chunk_size
      /\ pool.init \in Nat /\ pool.next \in Int /\ n \in Nat
      /\ pool.links \in [0..MaxPool -> Int] /\ pool.held \subseteq Chunks
      /\ \A a \in Chunks : a \in Int /\ a \in 0..MaxPool
      /\ pool.next <= pool.init
      /\ \A a \in pool.held : a < pool.init
      /\ \A a \in Chunks \ pool.held : a < pool.init => pool.links[a] <= pool.init
  BY PoolFields
<1>2. x \in Chunks /\ x \in 0..MaxPool /\ x \in Int /\ x < pool.init
  BY <1>1
<1>3. /\ links \in [0..MaxPool -> Int] /\ links[x] = pool.next
      /\ \A a \in 0..MaxPool : a # x => links[a] = pool.links[a]
  <2> DEFINE l == pool.links
             y == pool.next
  <2>1. l \in [0..MaxPool -> Int] /\ y \in Int
    BY <1>1
  <2> HIDE DEF l, y
  <2>2. /\ [l EXCEPT ![x] = y] \in [0..MaxPool -> Int] /\ [l EXCEPT ![x] = y][x] = y
        /\ \A a \in 0..MaxPool : a # x => [l EXCEPT ![x] = y][a] = l[a]
    BY <1>2, <2>1
  <2> QED
    BY <2>2 DEF l, y
<1>4. pool' = q
  BY <1>1 DEF PoolTypes
<1> HIDE DEF links
<1>5. /\ q \in PoolTypes /\ q.size = pool.size /\ q.chunk_size = pool.chunk_size
      /\ q.init = pool.init /\ q.next = x /\ q.chunks = n + 1 /\ q.held = pool.held \ {x}
      /\ q.links = links
  <2>1. n + 1 \in Nat /\ pool.held \ {x} \in SUBSET Int
    BY <1>1
  <2> HIDE DEF n
  <2> QED
    BY <1>1, <1>2, <1>3, <2>1 DEF PoolTypes
<1> HIDE DEF q
<1>6. PICK way : LeadsThrough(way, pool.next, n, Chunks \ pool.held)
  BY PoolFields
<1>7. /\ way \in [0..n -> Int] /\ way[0] = pool.next
      /\ \A i \in 0..n - 1 : way[i] \in Chunks \ pool.held /\ After(way[i]) = way[i + 1]
      /\ \A i, j \in 0..n - 1 : way[i] = way[j] => i = j
      /\ \A a \in Chunks \ pool.held : \E i \in 0..n - 1 : way[i] = a
  BY <1>6 DEF LeadsThrough
<1>8. ASSUME NEW a \in Chunks \ pool.held
      PROVE  /\ a \in Chunks \ q.held /\ a # x /\ links[a] = pool.links[a]
             /\ a >= q.init => After(a) = a + q.chunk_size
             /\ a < q.init => After(a) = links[a]
  <2>1. a \in Chunks \ q.held /\ a # x /\ links[a] = pool.links[a] /\ a \in Int
    BY <1>1, <1>3, <1>5
  <2> DEFINE z == pool.links[a]
             c == pool.chunk_size
  <2>2. After(a) = IF a >= pool.init THEN a + c ELSE z
    BY DEF After
  <2> HIDE DEF z, c
  <2>3. (a >= pool.init => After(a) = a + c) /\ (a < pool.init => After(a) = z)
    BY <1>1, <2>1, <2>2
  <2> QED
    BY <1>5, <2>1, <2>3 DEF z, c
<1> DEFINE next == [i \in 0..n + 1 |-> IF i = 0 THEN x ELSE way[i - 1]]
<1> HIDE DEF n
<1>9. /\ next \in [0..n + 1 -> Int] /\ next[0] = x
      /\ \A i \in 0..n + 1 : i # 0 => i - 1 \in 0..n /\ next[i] = way[i - 1]
  <2>1. \A i \in 0..n + 1 : i # 0 => i - 1 \in 0..n
    BY <1>1 DEF n
  <2>2. 0 \in 0..n + 1
    BY <1>1 DEF n
  <2> QED
    BY <1>2, <1>7, <2>1, <2>2
<1> HIDE DEF next
<1>10. n \in Nat
  BY <1>1 DEF n
<1>11. ASSUME NEW i \in 0..(n + 1) - 1
       PROVE  /\ next[i] \in Chunks \ q.held
              /\ next[i] >= q.init => next[i + 1] = next[i] + q.chunk_size
              /\ next[i] < q.init => next[i + 1] = q.links[next[i]]
  <2>1. i \in 0..n + 1 /\ i + 1 \in 0..n + 1 /\ i + 1 # 0 /\ (i + 1) - 1 = i
    BY <1>10
  <2>2. next[i + 1] = way[i]
    BY <1>9, <2>1
  <2>3. CASE i = 0
    BY <1>1, <1>2, <1>3, <1>5, <1>7, <1>9, <2>2, <2>3
  <2>4. CASE i # 0
    <3> DEFINE j == i - 1
               a == way[j]
    <3>1. j \in 0..n - 1 /\ j + 1 = i
      BY <1>10, <2>4
    <3>2. next[i] = a
      BY <1>9, <2>1, <2>4
    <3>3. a \in Chunks \ pool.held /\ After(a) = way[i]
      BY <1>7, <3>1
    <3> HIDE DEF a
    <3> QED
      BY <1>5, <1>8, <2>2, <3>2, <3>3
  <2> QED
    BY <2>3, <2>4
<1>12. ASSUME NEW i \in 0..(n + 1) - 1, i # 0
       PROVE  i - 1 \in 0..n - 1 /\ next[i] = way[i - 1] /\ next[i] # x /\ i \in Int
  <2>1. i - 1 \in 0..n - 1 /\ i \in 0..n + 1 /\ i \in Int
    BY <1>10, <1>12
  <2>2. next[i] = way[i - 1]
    BY <1>9, <1>12, <2>1
  <2> QED
    BY <1>7, <1>8, <2>1, <2>2
<1>13. \A i, j \in 0..(n + 1) - 1 : next[i] = next[j] => i = j
  <2> SUFFICES ASSUME NEW i \in 0..(n + 1) - 1, NEW j \in 0..(n + 1) - 1, next[i] = next[j]
               PROVE  i = j
    OBVIOUS
  <2>1. CASE i = 0 \/ j = 0
    BY <1>9, <1>12, <2>1
  <2>2. CASE i # 0 /\ j # 0
    <3>1. i - 1 = j - 1 /\ i \in Int /\ j \in Int
      BY <1>7, <1>12, <2>2
    <3> QED
      BY <3>1
  <2> QED
    BY <2>1, <2>2
<1>14. ASSUME NEW a \in Chunks \ q.held PROVE \E i \in 0..(n + 1) - 1 : next[i] = a
  <2>1. CASE a = x
    <3>1. 0 \in 0..(n + 1) - 1
      BY <1>10
    <3> QED
      BY <1>9, <2>1, <3>1
  <2>2. CASE a # x
    <3>1. PICK i \in 0..n - 1 : way[i] = a
      BY <1>5, <1>7, <2>2
    <3>2. i + 1 \in 0..(n + 1) - 1 /\ i + 1 # 0 /\ (i + 1) - 1 = i
      BY <1>10
    <3> QED
      BY <1>12, <3>1, <3>2
  <2> QED
    BY <2>1, <2>2
<1>15. \A a \in Chunks \ q.held : a < q.init => q.links[a] <= q.init
  <2> SUFFICES ASSUME NEW a \in Chunks \ q.held, a < q.init PROVE q.links[a] <= q.init
    OBVIOUS
  <2>1. CASE a = x
    BY <1>1, <1>3, <1>5, <2>1
  <2>2. CASE a # x
    BY <1>1, <1>5, <1>8, <2>2
  <2> QED
    BY <2>1, <2>2
<1>16. q.next <= q.init
  BY <1>1, <1>2, <1>5
<1>17. PoolWay(q, next)
  BY <1>5, <1>9, <1>11, <1>13, <1>14 DEF PoolWay
<1>18. PoolChange(q)
  <2>1. \E k \in Nat : q.init = k * q.chunk_size
    BY <1>5 DEF PoolInv
  <2> QED
    BY <1>1, <1>5, <1>15, <1>16, <1>17, <2>1 DEF PoolChange
<1> QED
  BY <1>4, <1>18, PoolMade


\* The number of chunks fits in an unsigned int: memory of less than 2^32 words.
SmallPools == MaxPool < UIntRange * Word

\* A new pool: the way leads through the memory from its start to its end.
LEMMA InitKeeps ==
  ASSUME SmallPools, NEW size \in 0..MaxPool, NEW chunk_size \in Nat,
         MempoolInit(size, chunk_size)
  PROVE  PoolInv'
<1> DEFINE c == IF chunk_size < Word THEN Word ELSE chunk_size
           n == size \div c
           links == [a \in 0..MaxPool |-> NoLink]
<1>1. Word \in Nat /\ Word >= 1 /\ c \in Nat /\ c >= Word /\ c >= 1 /\ size \in Nat
      /\ MaxPool \in Nat /\ size <= MaxPool /\ UIntRange \in Nat
  BY PoolAssumption, UIntAssumption
<1>2. pool' = [size |-> size, chunk_size |-> c, init |-> 0, next |-> 0, chunks |-> Wrap(n),
               links |-> links, held |-> {}, extra |-> 0]
  BY DEF MempoolInit
<1> HIDE DEF c
<1>3. n \in Nat /\ n * c <= size
  BY <1>1, Remainder
<1> HIDE DEF n, links
<1>4. Wrap(n) = n
  <2>1. c - Word \in Nat /\ n * c = n * Word + n * (c - Word)
    BY <1>1, <1>3
  <2>2. n * Word \in Nat /\ n * (c - Word) \in Nat /\ n * c \in Nat /\ UIntRange * Word \in Nat
    BY <1>1, <1>3, <2>1
  <2> DEFINE x == n * c
             y == n * Word
             z == n * (c - Word)
             m == UIntRange * Word
  <2>3. m \in Nat /\ x \in Nat /\ y \in Nat /\ z \in Nat /\ x = y + z /\ x <= size
    BY <1>3, <2>1, <2>2
  <2>5. MaxPool < m
    BY DEF SmallPools
  <2> HIDE DEF x, y, z, m
  <2>6. y < m
    BY <1>1, <2>3, <2>5
  <2>7. n < UIntRange
    BY <1>1, <1>3, <2>6, MultiplesApart DEF y, m
  <2> QED
    BY <1>1, <1>3, <2>7 DEF Wrap
<1>5. links \in [0..MaxPool -> Int] /\ \A a \in 0..MaxPool : links[a] = NoLink
  BY DEF links, NoLink
<1>6. /\ pool'.size = size /\ pool'.chunk_size = c /\ pool'.init = 0 /\ pool'.next = 0
      /\ pool'.chunks = n /\ pool'.links = links /\ pool'.held = {} /\ pool' \in PoolTypes
  <2>1. /\ pool'.size = size /\ pool'.chunk_size = c /\ pool'.init = 0 /\ pool'.next = 0
        /\ pool'.chunks = n /\ pool'.links = links /\ pool'.held = {}
    BY <1>2, <1>4
  <2>2. pool' \in PoolTypes
    BY <1>1, <1>2, <1>3, <1>4, <1>5 DEF PoolTypes
  <2> QED
    BY <2>1, <2>2
<1>7. Chunks' = {k * c : k \in 0..n - 1}
  BY <1>6 DEF Chunks, n
<1>8. \A k \in Nat : k * c \in Nat /\ (k + 1) * c = k * c + c
  BY <1>1, MultiplesApart
<1>9. ASSUME NEW k \in 0..n - 1
      PROVE  k * c \in Chunks' \ pool'.held /\ After(k * c)' = (k + 1) * c
  <2>1. k * c \in Chunks' /\ k \in Nat
    BY <1>3, <1>7
  <2>2. k * c \in Chunks' /\ k * c \in Nat /\ (k + 1) * c = k * c + c
    BY <1>8, <2>1
  <2> DEFINE a == k * c
             z == pool'.links[a]
  <2>3. After(a)' = IF a >= 0 THEN a + c ELSE z
    BY <1>6, <2>1 DEF After
  <2>4. a \in Chunks' /\ a \in Nat /\ (k + 1) * c = a + c
    BY <2>2
  <2> HIDE DEF a, z
  <2>5. After(a)' = (k + 1) * c
    BY <2>3, <2>4
  <2> QED
    BY <1>6, <2>2, <2>5 DEF a
<1> DEFINE way == [i \in 0..n |-> i * c]
<1>10. way \in [0..n -> Int] /\ \A i \in 0..n : way[i] = i * c
  <2>1. \A i \in 0..n : i * c \in Int
    BY <1>3, <1>8
  <2> QED
    BY <2>1
<1> HIDE DEF way
<1>11. way[0] = 0
  <2>1. 0 \in 0..n /\ 0 * c = 0
    BY <1>1, <1>3
  <2> QED
    BY <1>10, <2>1
<1>12. ASSUME NEW i \in 0..n - 1
       PROVE  way[i] \in Chunks' \ pool'.held /\ After(way[i])' = way[i + 1]
  <2>1. i \in 0..n /\ i + 1 \in 0..n
    BY <1>3
  <2> QED
    BY <1>9, <1>10, <2>1
<1>13. \A i, j \in 0..n - 1 : way[i] = way[j] => i = j
  <2> SUFFICES ASSUME NEW i \in 0..n - 1, NEW j \in 0..n - 1, way[i] = way[j]
               PROVE  i = j
    OBVIOUS
  <2>1. i \in Nat /\ j \in Nat /\ i \in 0..n /\ j \in 0..n
    BY <1>3
  <2> DEFINE x == i * c
             y == j * c
  <2>2. x \in Nat /\ y \in Nat /\ (i < j => x + c <= y) /\ (j < i => y + c <= x)
    BY <1>1, <2>1, MultiplesApart
  <2>3. x = y
    BY <1>10, <2>1
  <2> HIDE DEF x, y
  <2> QED
    BY <1>1, <2>1, <2>2, <2>3
<1>14. ASSUME NEW a \in Chunks' \ pool'.held PROVE \E i \in 0..n - 1 : way[i] = a
  <2>1. PICK i \in 0..n - 1 : a = i * c
    BY <1>7
  <2>2. i \in 0..n
    BY <1>3
  <2> QED
    BY <1>10, <2>1, <2>2
<1>15. LeadsThrough(way, pool.next, pool.chunks, Chunks \ pool.held)'
  BY <1>6, <1>10, <1>11, <1>12, <1>13, <1>14 DEF LeadsThrough
<1>16. \E k \in Nat : pool'.init = k * pool'.chunk_size
  <2>1. 0 = 0 * c /\ 0 \in Nat
    BY <1>1
  <2> QED
    BY <1>6, <2>1
<1>17. /\ Word <= pool'.chunk_size /\ pool'.next <= pool'.init
       /\ pool'.held \subseteq Chunks' /\ \A a \in pool'.held : a < pool'.init
  BY <1>1, <1>6
<1>18. ASSUME NEW a \in Chunks', a < pool'.init PROVE FALSE
  <2>1. PICK k \in 0..n - 1 : a = k * c
    BY <1>7
  <2>2. k \in Nat
    BY <1>3
  <2>3. a \in Nat
    BY <1>8, <2>1, <2>2
  <2> QED
    BY <1>6, <1>18, <2>3
<1> QED
  BY <1>6, <1>15, <1>16, <1>17, <1>18 DEF PoolInv

\* A chunk too many is given back: nothing else changes.
LEMMA ExtraFreeKeeps ==
  ASSUME PoolInv, pool # None, MempoolFreeExtra
  PROVE  PoolInv'
<1> DEFINE e == pool.extra - 1
           q == [pool EXCEPT !.extra = e]
<1>1. pool \in PoolTypes /\ pool.extra \in Nat /\ pool.extra > 0
  BY PoolFields DEF MempoolFreeExtra
<1>2. pool' = q
  BY <1>1 DEF MempoolFreeExtra, PoolTypes
<1>3. e \in Nat
  BY <1>1
<1> HIDE DEF e
<1>4. /\ q \in PoolTypes /\ q.size = pool.size /\ q.chunk_size = pool.chunk_size
      /\ q.init = pool.init /\ q.next = pool.next /\ q.chunks = pool.chunks
      /\ q.held = pool.held /\ q.links = pool.links
  BY <1>1, <1>3 DEF PoolTypes
<1> HIDE DEF q
<1>5. Chunks' = Chunks
  BY <1>2, <1>4 DEF Chunks
<1>6. \A a : After(a)' = After(a)
  BY <1>2, <1>4, <1>5 DEF After
<1> QED
  BY <1>2, <1>4, <1>5, <1>6 DEF PoolInv, LeadsThrough

\* The invariant of a pool that is small enough, kept by every call, and where
\* a call leaves the memory (mempool_alloc_chunk()).
LEMMA PoolKeeps ==
  ASSUME SmallPools, PoolInv, MempoolNext
  PROVE  PoolInv' /\ MempoolStaysInside'
<1>1. fault = "none"
  BY DEF MempoolNext, Fine
<1>2. ASSUME fault' = fault PROVE MempoolStaysInside'
  BY <1>1, <1>2 DEF MempoolStaysInside
<1>3. ASSUME NEW size \in 0..MaxPool, NEW chunk \in 1..Word + 1, MempoolInit(size, chunk)
      PROVE  PoolInv' /\ MempoolStaysInside'
  <2>1. chunk \in Nat
    BY PoolAssumption
  <2> QED
    BY <1>2, <1>3, <2>1, InitKeeps DEF MempoolInit, Returns
<1>4. ASSUME pool # None, MempoolAllocChunk PROVE PoolInv' /\ MempoolStaysInside'
  <2>1. CASE pool.init < pool.size /\ pool.init + Word > pool.size
    <3> DEFINE c == pool.chunk_size
               s == pool.size
               b == pool.init
    <3>1. UNCHANGED pool
      BY <1>4, <2>1 DEF MempoolAllocChunk
    <3>2. PoolInv'
      BY <3>1 DEF PoolInv, LeadsThrough, After, Chunks
    <3>3. c \in Nat /\ c >= 1 /\ s \in Nat /\ Word \in Nat /\ Word <= c /\ b \in Nat
      BY <1>4, ChunksFit, PoolFields
    <3>4. PICK k \in Nat : b = k * c
      BY <1>4 DEF PoolInv
    <3>5. b < s /\ b + Word > s
      BY <2>1
    <3> HIDE DEF c, s, b
    <3>6. b < s /\ s < b + c
      BY <3>3, <3>5
    <3>7. s % c = s - b
      <4>1. c > 0
        BY <3>3
      <4>2. \A j \in Nat, x \in Nat : x = j * c /\ x < s /\ s < x + c => s % c = s - x
        BY <3>3, <4>1, Remainder, Zenon
      <4> QED
        BY <3>3, <3>4, <3>6, <4>2, Zenon
    <3>8. (s % c) \in 1..Word - 1
      BY <3>3, <3>5, <3>7
    <3> QED
      BY <3>1, <3>2, <3>8 DEF MempoolStaysInside, s, c
  <2>2. CASE ~(pool.init < pool.size /\ pool.init + Word > pool.size)
    <3>1. MempoolEmpty \/ Linked.next \in Chunks
      BY <1>4, <2>2, NextIsFree, LinkedKeeps DEF MempoolEmpty
    <3>2. \/ /\ ~MempoolEmpty
             /\ pool' = [Linked EXCEPT !.chunks = @ - 1, !.next = Linked.links[@],
                             !.links[pool.next] = NoLink, !.held = @ \cup {pool.next}]
             /\ Returns(pool.next)
          \/ /\ MempoolEmpty /\ pool.extra < MaxExtra
             /\ pool' = [Linked EXCEPT !.extra = @ + 1]
             /\ Returns(None)
          \/ MempoolEmpty /\ pool' = Linked /\ Returns(Failed)
      BY <1>4, <2>2, <3>1 DEF MempoolAllocChunk
    <3>3. MempoolStaysInside'
      BY <1>2, <3>2 DEF Returns
    <3>4. pool.extra \in Nat /\ Linked \in PoolTypes /\ Linked.extra = pool.extra
      BY <1>4, <2>2, PoolFields, LinkedKeeps
    <3>5. CASE pool' = [Linked EXCEPT !.extra = @ + 1]
      <4>1. pool.extra + 1 \in Nat
        BY <3>4
      <4>2. pool' = [Linked EXCEPT !.extra = pool.extra + 1]
        BY <3>4, <3>5 DEF PoolTypes
      <4> QED
        BY <1>4, <2>2, <3>3, <4>1, <4>2, ExtraKeeps
    <3>6. CASE pool' = Linked
      <4>1. pool' = [Linked EXCEPT !.extra = pool.extra]
        BY <3>4, <3>6 DEF PoolTypes
      <4> QED
        BY <1>4, <2>2, <3>3, <3>4, <4>1, ExtraKeeps
    <3>7. CASE /\ ~MempoolEmpty
               /\ pool' = [Linked EXCEPT !.chunks = @ - 1, !.next = Linked.links[@],
                               !.links[pool.next] = NoLink, !.held = @ \cup {pool.next}]
      BY <1>4, <2>2, <3>3, <3>7, AllocKeeps DEF MempoolEmpty
    <3> QED
      BY <3>2, <3>5, <3>6, <3>7
  <2> QED
    BY <2>1, <2>2
<1>5. ASSUME pool # None, MempoolFreeExtra PROVE PoolInv' /\ MempoolStaysInside'
  BY <1>2, <1>5, ExtraFreeKeeps DEF MempoolFreeExtra, Returns
<1>6. ASSUME MempoolDestroy PROVE PoolInv' /\ MempoolStaysInside'
  BY <1>2, <1>6 DEF MempoolDestroy, Returns, PoolInv
<1>7. ASSUME pool # None, NEW chunk \in Chunks, MempoolFreeChunk(chunk)
      PROVE  PoolInv' /\ MempoolStaysInside'
  <2>1. /\ chunk \in pool.held /\ fault' = fault
        /\ pool' = [pool EXCEPT !.chunks = @ + 1, !.links[chunk] = pool.next, !.next = chunk,
                                !.held = @ \ {chunk}]
    BY <1>7 DEF MempoolFreeChunk, Returns
  <2>2. PoolInv'
    BY <1>7, <2>1, FreeKeeps, Zenon
  <2> QED
    BY <1>2, <2>1, <2>2
<1> QED
  BY <1>3, <1>4, <1>5, <1>6, <1>7 DEF MempoolNext


\* Where the list leads after each number of steps.
PoolWalk(at) == at = [i \in Nat |-> IF i = 0 THEN pool.next ELSE After(at[i - 1])]

LEMMA PoolWalks ==
  ASSUME PoolInv, pool # None
  PROVE  \E at : PoolWalk(at)
<1> DEFINE step == [a \in Int |-> After(a)]
<1>1. ASSUME NEW a \in Int PROVE After(a) \in Int
  <2>1. CASE a \notin Chunks
    BY <2>1 DEF After
  <2>2. CASE a \in Chunks
    <3> DEFINE z == pool.links[a]
               c == pool.chunk_size
    <3>3. /\ a \in 0..MaxPool /\ pool.links \in [0..MaxPool -> Int]
          /\ c \in Nat /\ pool.init \in Int
      BY <2>2, PoolFields
    <3>1. z \in Int /\ c \in Nat /\ pool.init \in Int
      BY <3>3
    <3>2. After(a) = IF a >= pool.init THEN a + c ELSE z
      BY <2>2 DEF After
    <3> HIDE DEF z, c
    <3> QED
      BY <3>1, <3>2
  <2> QED
    BY <2>1, <2>2
<1>2. step \in SelfMaps(Int) /\ \A a \in Int : step[a] = After(a)
  BY <1>1 DEF SelfMaps
<1> HIDE DEF step
<1>3. pool.next \in Int
  BY PoolFields
<1>4. PICK f : Iterates(Int, pool.next, step, f)
  BY <1>2, <1>3, NumberRecursion
<1>5. /\ f \in [Nat -> Int] /\ f[0] = pool.next
      /\ \A n \in Nat : f[n + 1] = After(f[n])
  BY <1>2, <1>4 DEF Iterates
<1>6. ASSUME NEW i \in Nat PROVE f[i] = IF i = 0 THEN pool.next ELSE After(f[i - 1])
  <2>1. CASE i = 0
    BY <1>5, <2>1
  <2>2. CASE i # 0
    <3>1. i - 1 \in Nat /\ (i - 1) + 1 = i
      BY <2>2
    <3> QED
      BY <1>5, <2>2, <3>1
  <2> QED
    BY <2>1, <2>2
<1> DEFINE g == [i \in Nat |-> IF i = 0 THEN pool.next ELSE After(f[i - 1])]
<1>7. f = g
  BY <1>5, <1>6
<1> QED
  BY <1>7 DEF PoolWalk

\* The invariant says what FreeListSound does.
LEMMA PoolSound ==
  ASSUME PoolInv
  PROVE  FreeListSound
<1> DEFINE n == pool.chunks
           free == Chunks \ pool.held
           at == CHOOSE f : PoolWalk(f)
<1> SUFFICES ASSUME pool # None
             PROVE  {at[i] : i \in 0..n - 1} = free /\ n = Cardinality(free)
  BY DEF FreeListSound, PoolWalk, After
<1>1. PoolWalk(at)
  BY PoolWalks
<1> HIDE DEF at
<1>2. at[0] = pool.next /\ \A i \in Nat : at[i + 1] = After(at[i])
  <2>1. \A i \in Nat : at[i] = IF i = 0 THEN pool.next ELSE After(at[i - 1])
    BY <1>1 DEF PoolWalk
  <2>2. \A i \in Nat : i + 1 \in Nat /\ i + 1 # 0 /\ (i + 1) - 1 = i
    OBVIOUS
  <2> QED
    BY <2>1, <2>2
<1>3. PICK way : LeadsThrough(way, pool.next, n, free)
  BY PoolFields
<1>4. /\ way \in [0..n -> Int] /\ way[0] = pool.next /\ n \in Nat
      /\ \A i \in 0..n - 1 : way[i] \in free /\ After(way[i]) = way[i + 1]
      /\ \A i, j \in 0..n - 1 : way[i] = way[j] => i = j
      /\ \A a \in free : \E i \in 0..n - 1 : way[i] = a
  BY <1>3, PoolFields DEF LeadsThrough
<1> HIDE DEF n, free
<1>5. \A i \in 0..n : at[i] = way[i]
  <2> DEFINE S == {i \in Nat : i <= n => at[i] = way[i]}
  <2>1. 0 \in S
    BY <1>2, <1>4
  <2>2. ASSUME NEW i \in Nat, i \in S PROVE i + 1 \in S
    <3> SUFFICES ASSUME i + 1 <= n PROVE at[i + 1] = way[i + 1]
      OBVIOUS
    <3>1. i \in 0..n - 1 /\ i <= n
      BY <1>4
    <3> QED
      BY <1>2, <1>4, <2>2, <3>1
  <2> HIDE DEF S
  <2>3. Nat \subseteq S
    BY <2>1, <2>2, NumberInduction
  <2> QED
    BY <1>4, <2>3 DEF S
<1>6. {at[i] : i \in 0..n - 1} = free
  <2>1. \A i \in 0..n - 1 : i \in 0..n
    BY <1>4
  <2> QED
    BY <1>4, <1>5, <2>1
<1>7. Cardinality(free) = n
  <2> DEFINE f == [i \in 1..n |-> way[i - 1]]
  <2>1. \A i \in 1..n : i - 1 \in 0..n - 1 /\ i \in Int
    BY <1>4
  <2>2. \A i \in 0..n - 1 : i + 1 \in 1..n /\ (i + 1) - 1 = i
    BY <1>4
  <2>3. f \in [1..n -> free] /\ \A i \in 1..n : f[i] = way[i - 1]
    BY <1>4, <2>1
  <2> HIDE DEF f
  <2>4. \A i, j \in 1..n : f[i] = f[j] => i = j
    <3> SUFFICES ASSUME NEW i \in 1..n, NEW j \in 1..n, f[i] = f[j] PROVE i = j
      OBVIOUS
    <3>1. i - 1 = j - 1
      BY <1>4, <2>1, <2>3
    <3> QED
      BY <2>1, <3>1
  <2>5. \A a \in free : \E i \in 1..n : f[i] = a
    <3> SUFFICES ASSUME NEW a \in free PROVE \E i \in 1..n : f[i] = a
      OBVIOUS
    <3>1. PICK i \in 0..n - 1 : way[i] = a
      BY <1>4
    <3> QED
      BY <2>2, <2>3, <3>1
  <2>6. f \in Bijection(1..n, free)
    BY <2>3, <2>4, <2>5 DEF Bijection, Injection, Surjection, IsInjective
  <2>7. ExistsBijection(1..n, free)
    BY <2>6 DEF ExistsBijection
  <2> QED
    BY <1>4, <2>7, FS_CountingElements
<1> QED
  BY <1>6, <1>7


-----------------------------------------------------------------------------
(* The parts together *)

\* A step of one part finds no object of another, and leaves no fault but its
\* own.
LEMMA OneAtATime ==
  /\ HeapStep => HeapNext /\ vec = None /\ buf = None /\ pool = None
                 /\ UNCHANGED <<vec, buf, pool>>
  /\ VectorStep => VectorNext /\ heap = None /\ buf = None /\ pool = None
                   /\ UNCHANGED <<heap, buf, pool>>
  /\ BufferStep => BufferNext /\ heap = None /\ vec = None /\ pool = None
                   /\ UNCHANGED <<heap, vec, pool>>
  /\ MemPoolStep => MempoolNext /\ heap = None /\ vec = None /\ buf = None
                    /\ UNCHANGED <<heap, vec, buf>>
  /\ ClockStep \/ OptionsStep \/ LogStep =>
         heap = None /\ buf = None /\ fault' = fault /\ UNCHANGED <<heap, vec, buf, pool>>
  /\ ConfigStep => heap = None /\ buf = None /\ Fine /\ fault' \in {"none", "free"}
                   /\ UNCHANGED <<heap, vec, buf, pool>>
  /\ ConfigFileStep => DiskNext /\ heap = None /\ buf = None
                       /\ UNCHANGED <<heap, vec, buf, pool>>
BY ClockLeaves, OptionsLeaves, LogLeaves, ConfigLeaves
   DEF AllNone, HeapStep, VectorStep, BufferStep, MemPoolStep, ClockStep, OptionsStep,
       ConfigStep, ConfigFileStep, LogStep

PartsInv == HeapInv /\ VectorInv /\ BufferInv

\* Every step keeps the invariants of the heap, the vector and the buffer, and
\* is a step of what the heap and the buffer implement.
LEMMA PartsStep ==
  ASSUME PartsInv, [Next]_vars
  PROVE  /\ PartsInv'
         /\ HeapsAreObjects => [heap # None /\ Fine' => PQ!Next]_<<heap, returned>>
         /\ BuffersAreObjects =>
                [buf # None /\ Fine' /\ BufferWhole' => Stream!Next]_<<buf, returned>>
<1> DEFINE Goal == /\ PartsInv'
                   /\ HeapsAreObjects /\ heap # None /\ Fine' => PQ!Next
                   /\ BuffersAreObjects /\ buf # None /\ Fine' /\ BufferWhole' => Stream!Next
<1>1. UNCHANGED heap => HeapInv'
  BY DEF PartsInv, HeapInv
<1>2. UNCHANGED vec => VectorInv'
  BY DEF PartsInv, VectorInv
<1>3. UNCHANGED buf => BufferInv'
  BY DEF PartsInv, BufferInv
<1>4. ASSUME HeapStep PROVE Goal
  <2>1. HeapNext /\ buf = None /\ UNCHANGED <<vec, buf>>
    BY <1>4, OneAtATime
  <2>2. HeapInv' /\ (HeapsAreObjects /\ heap # None /\ Fine' => PQ!Next)
    BY <2>1, HeapKeeps DEF PartsInv
  <2> QED
    BY <1>2, <1>3, <2>1, <2>2 DEF PartsInv
<1>5. ASSUME VectorStep PROVE Goal
  <2>1. VectorNext /\ heap = None /\ buf = None /\ UNCHANGED <<heap, buf>>
    BY <1>5, OneAtATime
  <2>2. VectorInv'
    BY <2>1, VectorKeeps DEF PartsInv
  <2> QED
    BY <1>1, <1>3, <2>1, <2>2 DEF PartsInv
<1>6. ASSUME BufferStep PROVE Goal
  <2>1. BufferNext /\ heap = None /\ UNCHANGED <<heap, vec>>
    BY <1>6, OneAtATime
  <2>2. /\ BufferInv'
        /\ BuffersAreObjects /\ buf # None /\ Fine' /\ BufferWhole' => Stream!Next
    BY <2>1, BufferKeeps DEF PartsInv
  <2> QED
    BY <1>1, <1>2, <2>1, <2>2 DEF PartsInv
<1>7. ASSUME \/ MemPoolStep \/ ClockStep \/ OptionsStep \/ ConfigStep
             \/ ConfigFileStep \/ LogStep
      PROVE  Goal
  <2>1. heap = None /\ buf = None /\ UNCHANGED <<heap, vec, buf>>
    BY <1>7, OneAtATime
  <2> QED
    BY <1>1, <1>2, <1>3, <2>1 DEF PartsInv
<1>8. ASSUME UNCHANGED vars
      PROVE  PartsInv' /\ UNCHANGED <<heap, returned>> /\ UNCHANGED <<buf, returned>>
  BY <1>1, <1>2, <1>3, <1>8 DEF PartsInv, vars
<1> QED
  BY <1>4, <1>5, <1>6, <1>7, <1>8 DEF Next

LEMMA PartsAlways == Spec => []PartsInv
<1>1. Init => PartsInv
  BY DEF Init, PartsInv, HeapInv, VectorInv, BufferInv
<1>2. PartsInv /\ [Next]_vars => PartsInv'
  BY PartsStep
<1> QED
  BY <1>1, <1>2, PTL DEF Spec

\* However elements are inserted, taken and dropped, and whichever realloc()
\* fails: a heap yields the greatest of the elements it holds, and loses none
\* (heap_insert(), heap_take(), heap_clear()).
THEOREM HeapIsPriorityQueue ==
  ASSUME HeapsAreObjects
  PROVE  Spec => HeapServes
<1>1. Init => PQ!Init
  BY DEF Init, PQ!Init, HeapItems
<1>2. PartsInv /\ [Next]_vars => [heap # None /\ Fine' => PQ!Next]_<<heap, returned>>
  BY PartsStep
<1> QED
  BY <1>1, <1>2, PartsAlways, PTL DEF Spec, HeapServes

\* For as long as realloc() was asked for what a buffer holds, what was written
\* is read, in its order and once, however the buffer grows, is squeezed,
\* cleared and cloned (buffer_write(), buffer_read(), _buffer_remove()).
THEOREM BufferIsStream ==
  ASSUME BuffersAreObjects
  PROVE  Spec => BufferStreams
<1>1. Init => Stream!Init
  BY DEF Init, Stream!Init
<1>2. PartsInv /\ [Next]_vars =>
          [buf # None /\ Fine' /\ BufferWhole' => Stream!Next]_<<buf, returned>>
  BY PartsStep
<1> QED
  BY <1>1, <1>2, PartsAlways, PTL DEF Spec, BufferStreams

\* In a sorted vector of fewer than 2^31 elements the binary searches agree
\* with a look at every element (vector_index_of_sorted(),
\* vector_insert_sorted()).
THEOREM SortedVectorsSearch == Spec => []VectorSearches
<1>1. PartsInv => VectorSearches
  BY SearchesRight DEF PartsInv
<1> QED
  BY <1>1, PartsAlways, PTL

\* vector_take_all() takes nothing but matches and leaves one only right behind
\* one that it takes; what stays keeps its order.
THEOREM TakeAllTakesMatches == Spec => []TakeAllTakes
<1>1. PartsInv => TakeAllTakes
  BY RowsLeft DEF PartsInv
<1> QED
  BY <1>1, PartsAlways, PTL

-----------------------------------------------------------------------------
(* Where calls leave the memory of their object *)

MemoryInv == PartsInv /\ PoolInv /\ StaysInside

\* What was true of a part that stays as it is, while the fault is another's.
LEMMA InsideFrames ==
  ASSUME StaysInside
  PROVE  /\ UNCHANGED heap /\ fault' \notin HeapFaults => HeapStaysInside'
         /\ UNCHANGED vec /\ fault' # "vector_insert_at" => VectorStaysInside'
         /\ /\ UNCHANGED buf
            /\ fault' \notin {"buffer_write", "buffer_clear_accessed", "buffer_clear_unaccessed"}
            => BufferStaysInside'
         /\ fault' # "mempool_alloc_chunk" => MempoolStaysInside'
         /\ UNCHANGED <<heap, vec, buf, pool, fault>> => StaysInside'
<1>1. ASSUME UNCHANGED heap, fault' \notin HeapFaults PROVE HeapStaysInside'
  BY <1>1 DEF StaysInside, HeapStaysInside, HeapFaults
<1>2. ASSUME UNCHANGED vec, fault' # "vector_insert_at" PROVE VectorStaysInside'
  BY <1>2 DEF StaysInside, VectorStaysInside
<1>3. ASSUME UNCHANGED buf,
             fault' \notin {"buffer_write", "buffer_clear_accessed", "buffer_clear_unaccessed"}
      PROVE  BufferStaysInside'
  BY <1>3 DEF StaysInside, BufferStaysInside, Used
<1>4. ASSUME UNCHANGED <<heap, vec, buf, pool, fault>> PROVE StaysInside'
  BY <1>4 DEF StaysInside, HeapStaysInside, VectorStaysInside, BufferStaysInside,
              MempoolStaysInside, Used
<1> QED
  BY <1>1, <1>2, <1>3, <1>4 DEF MempoolStaysInside

LEMMA MemoryStep ==
  ASSUME SmallPools, MemoryInv, [Next]_vars
  PROVE  MemoryInv'
<1>1. PartsInv'
  BY PartsStep DEF MemoryInv
<1>2. UNCHANGED pool => PoolInv'
  BY DEF MemoryInv, PoolInv, LeadsThrough, After, Chunks
<1> DEFINE Goal == PoolInv' /\ StaysInside'
<1>4. ASSUME HeapStep PROVE Goal
  <2>1. HeapNext /\ UNCHANGED <<vec, buf, pool>>
    BY <1>4, OneAtATime
  <2>2. HeapStaysInside' /\ fault' \in {"none"} \cup HeapFaults
    BY <2>1, HeapKeeps, HeapLeaves DEF MemoryInv, PartsInv
  <2>3. VectorStaysInside' /\ BufferStaysInside' /\ MempoolStaysInside'
    BY <2>1, <2>2, InsideFrames DEF HeapFaults, MemoryInv
  <2> QED
    BY <1>2, <2>1, <2>2, <2>3 DEF StaysInside
<1>5. ASSUME VectorStep PROVE Goal
  <2>1. VectorNext /\ UNCHANGED <<heap, buf, pool>>
    BY <1>5, OneAtATime
  <2>2. VectorStaysInside' /\ fault' \in {"none"} \cup VectorFaults
    BY <2>1, VectorKeeps, VectorLeaves DEF MemoryInv, PartsInv
  <2>3. HeapStaysInside' /\ BufferStaysInside' /\ MempoolStaysInside'
    BY <2>1, <2>2, InsideFrames DEF VectorFaults, HeapFaults, MemoryInv
  <2> QED
    BY <1>2, <2>1, <2>2, <2>3 DEF StaysInside
<1>6. ASSUME BufferStep PROVE Goal
  <2>1. BufferNext /\ UNCHANGED <<heap, vec, pool>>
    BY <1>6, OneAtATime
  <2>2. BufferStaysInside' /\ fault' \in {"none"} \cup BufferFaults
    BY <2>1, BufferKeeps, BufferLeaves DEF MemoryInv, PartsInv
  <2>3. HeapStaysInside' /\ VectorStaysInside' /\ MempoolStaysInside'
    BY <2>1, <2>2, InsideFrames DEF BufferFaults, HeapFaults, MemoryInv
  <2> QED
    BY <1>2, <2>1, <2>2, <2>3 DEF StaysInside
<1>7. ASSUME MemPoolStep PROVE Goal
  <2>1. MempoolNext /\ UNCHANGED <<heap, vec, buf>>
    BY <1>7, OneAtATime
  <2>2. PoolInv' /\ MempoolStaysInside' /\ fault' \in {"none", "mempool_alloc_chunk"}
    BY <2>1, PoolKeeps, MemPoolLeaves DEF MemoryInv
  <2>3. HeapStaysInside' /\ VectorStaysInside' /\ BufferStaysInside'
    BY <2>1, <2>2, InsideFrames DEF HeapFaults, MemoryInv
  <2> QED
    BY <2>1, <2>2, <2>3 DEF StaysInside
<1>8. ASSUME ConfigFileStep PROVE Goal
  <2>1. fault' \in {"none", "path_create"} /\ UNCHANGED <<heap, vec, buf, pool>>
    BY <1>8, OneAtATime, DiskLeaves
  <2>2. StaysInside'
    BY <2>1, InsideFrames DEF HeapFaults, StaysInside, MemoryInv
  <2> QED
    BY <1>2, <2>1, <2>2
<1>9. ASSUME ConfigStep PROVE Goal
  <2>1. fault' \in {"none", "free"} /\ UNCHANGED <<heap, vec, buf, pool>>
    BY <1>9, OneAtATime
  <2>2. StaysInside'
    BY <2>1, InsideFrames DEF HeapFaults, StaysInside, MemoryInv
  <2> QED
    BY <1>2, <2>1, <2>2
<1>10. ASSUME ClockStep \/ OptionsStep \/ LogStep \/ UNCHANGED vars PROVE Goal
  <2>1. UNCHANGED <<heap, vec, buf, pool, fault>>
    BY <1>10, OneAtATime DEF vars
  <2>2. StaysInside'
    BY <2>1, InsideFrames DEF MemoryInv
  <2> QED
    BY <1>2, <2>1, <2>2
<1>11. Goal
  BY <1>4, <1>5, <1>6, <1>7, <1>8, <1>9, <1>10 DEF Next
<1> QED
  BY <1>1, <1>11 DEF MemoryInv

LEMMA MemoryAlways ==
  ASSUME SmallPools
  PROVE  Spec => []MemoryInv
<1>1. Init => PartsInv /\ PoolInv
  BY DEF Init, PartsInv, HeapInv, VectorInv, BufferInv, PoolInv
<1>2. Init => StaysInside
  BY DEF Init, Fine, StaysInside, HeapStaysInside, VectorStaysInside, BufferStaysInside,
         MempoolStaysInside
<1>3. Init => MemoryInv
  BY <1>1, <1>2 DEF MemoryInv
<1>4. MemoryInv /\ [Next]_vars => MemoryInv'
  BY MemoryStep
<1> QED
  BY <1>3, <1>4, PTL DEF Spec

\* However chunks are allocated and given back, the list of a pool leads
\* through every chunk that nobody holds, once (mempool_alloc_chunk(),
\* mempool_free_chunk()).
THEOREM FreeListsSound ==
  ASSUME SmallPools
  PROVE  Spec => []FreeListSound
<1>1. MemoryInv => FreeListSound
  BY PoolSound DEF MemoryInv
<1> QED
  BY <1>1, MemoryAlways, PTL

\* No call leaves the memory of its object except where HeapStaysInside,
\* VectorStaysInside, BufferStaysInside and MempoolStaysInside say so.
THEOREM CallsStayInside ==
  ASSUME SmallPools
  PROVE  Spec => []StaysInside
<1>1. MemoryInv => StaysInside
  BY DEF MemoryInv
<1> QED
  BY <1>1, MemoryAlways, PTL
=============================================================================
