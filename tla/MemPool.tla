------------------------------ MODULE MemPool ------------------------------
(***************************************************************************)
(* src/lib/util/mempool.c: chunks of the caller's memory, linked through   *)
(* their first word while they are free.  The list is written chunk by     *)
(* chunk, one with each allocation.  Addresses count from the start of the *)
(* memory; a chunk that the caller holds has no link any more.             *)
(***************************************************************************)
EXTENDS Calls

CONSTANTS
    Word,       \* sizeof(unsigned long)
    MaxPool,    \* the largest memory given to a pool
    MaxExtra    \* bound on the chunks malloc() provides at a time

ASSUME PoolAssumption == Word \in Nat \ {0} /\ MaxPool \in Nat /\ MaxExtra \in Nat

VARIABLE pool

NoLink == -1

Chunks == {k * pool.chunk_size : k \in 0..(pool.size \div pool.chunk_size) - 1}

\* mempool_new(), mempool_init()
MempoolInit(size, chunk_size) ==
    LET chunk == IF chunk_size < Word THEN Word ELSE chunk_size
    IN  /\ pool = None
        /\ pool' = [size |-> size, chunk_size |-> chunk, init |-> 0, next |-> 0,
                    chunks |-> Wrap(size \div chunk), links |-> [a \in 0..MaxPool |-> NoLink],
                    held |-> {}, extra |-> 0]
        /\ Returns(None)

MempoolEmpty == pool.chunks = 0

\* the pool after the next chunk, if there is one, has been linked
Linked ==
    IF pool.init < pool.size
    THEN [pool EXCEPT !.links[pool.init] = pool.init + pool.chunk_size,
                      !.init = pool.init + pool.chunk_size]
    ELSE pool

\* mempool_alloc_chunk(), with malloc() for an empty pool
MempoolAllocChunk ==
    IF \/ pool.init < pool.size /\ pool.init + Word > pool.size
       \/ ~MempoolEmpty /\ Linked.next \notin Chunks
    THEN Stray("mempool_alloc_chunk") /\ UNCHANGED <<pool, returned>>
    ELSE \/ /\ ~MempoolEmpty
            /\ pool' = [Linked EXCEPT !.chunks = @ - 1, !.next = Linked.links[@],
                            !.links[pool.next] = NoLink, !.held = @ \cup {pool.next}]
            /\ Returns(pool.next)
         \/ /\ MempoolEmpty /\ pool.extra < MaxExtra
            /\ pool' = [Linked EXCEPT !.extra = @ + 1]
            /\ Returns(None)
         \/ MempoolEmpty /\ pool' = Linked /\ Returns(Failed)

\* FreeForgetsNext: the freed chunk is linked, but nothing leads to it
FreeForgetsNext(chunk) ==
    /\ chunk \in pool.held
    /\ pool' = [pool EXCEPT !.chunks = @ + 1, !.links[chunk] = pool.next,
                            !.held = @ \ {chunk}]
    /\ Returns(None)

\* mempool_free_chunk() of a chunk of the pool, and of one from malloc()
MempoolFreeChunk(chunk) ==
    /\ chunk \in pool.held
    /\ pool' = [pool EXCEPT !.chunks = @ + 1, !.links[chunk] = pool.next, !.next = chunk,
                            !.held = @ \ {chunk}]
    /\ Returns(None)

MempoolFreeExtra ==
    /\ pool.extra > 0
    /\ pool' = [pool EXCEPT !.extra = @ - 1]
    /\ Returns(None)

\* mempool_destroy(), mempool_delete()
MempoolDestroy == pool' = None /\ Returns(None)

MempoolNext ==
    /\ Fine
    /\ \/ \E size \in 0..MaxPool, chunk \in 1..Word + 1 : MempoolInit(size, chunk)
       \/ /\ pool # None
          /\ \/ MempoolAllocChunk \/ MempoolFreeExtra \/ MempoolDestroy
             \/ \E chunk \in Chunks : MempoolFreeChunk(chunk)

-----------------------------------------------------------------------------
(* Properties *)

\* Whatever the order of allocations and frees, the list that starts at "next"
\* leads through every chunk nobody holds, once, before it ends: no chunk is
\* handed out twice and none is lost (mempool_alloc_chunk(),
\* mempool_free_chunk()).
FreeListSound ==
    (pool # None /\ Fine) =>
        LET after(a) == IF a \notin Chunks THEN a
                        ELSE IF a >= pool.init THEN a + pool.chunk_size ELSE pool.links[a]
            at[i \in Nat] == IF i = 0 THEN pool.next ELSE after(at[i - 1])
        IN  /\ {at[i] : i \in 0..pool.chunks - 1} = Chunks \ pool.held
            /\ pool.chunks = Cardinality(Chunks \ pool.held)

\* The list is written beyond the memory only where what remains behind the
\* last chunk is smaller than a word (mempool_alloc_chunk()).
MempoolStaysInside ==
    fault = "mempool_alloc_chunk" => (pool.size % pool.chunk_size) \in 1..Word - 1
=============================================================================
