------------------------------ MODULE MCParts ------------------------------
(***************************************************************************)
(* The parts of the library that have no threads of their own, one at a    *)
(* time: whichever object exists is the only one that is used, so that     *)
(* their states add up and are not multiplied.                             *)
(***************************************************************************)
EXTENDS Heap, Vector, Buffer, MemPool, Clock, Options, Config, ConfigFile, Log

CONSTANTS
    d1, d2, d3, d4, d5,    \* pointers
    short, long, number, list, other    \* flags

\* two pointers compare equal
MCRank == [d \in {d1, d2, d3, d4, d5} |->
    CASE d = d1 -> 1 [] d \in {d2, d3} -> 2 [] d = d4 -> 3 [] d = d5 -> 4]

\* two flags of an option without texts, one with one text, one with one or
\* more, and one that no option has
MCAccepts == <<0, 1, -1>>
MCOptionOf == [f \in {short, long, number, list} |->
    CASE f \in {short, long} -> 1 [] f = number -> 2 [] f = list -> 3]
MCTokens == {<<short>>, <<long>>, <<number>>, <<number, list>>, <<list>>, <<other>>}

MCLines == {
    <<"a", "=", "b", "\n">>,
    <<" ", "a", "c", " ", "=", " ", "b", " ", "c", "\n">>,
    <<" ", "#", "a", "=", "\n">>,
    <<"\n">>,
    <<"=", "=", "\n">>,
    <<"a", "\n">>,
    <<"a", "=", "\n">>,
    <<"a", "=", "#", "\n">>,
    <<"a", "=", "b">>}
MCHandleKeys == {<<"a">>}

vars == <<heap, vec, buf, pool, clock, opts, config, disk, log, now, returned, fault>>

AllNone(objects) == \A i \in DOMAIN objects : objects[i] = None

Init ==
    /\ heap = None /\ vec = None /\ buf = None /\ pool = None /\ clock = None
    /\ opts = None /\ config = None /\ disk = None /\ log = None
    /\ now = 0 /\ returned = None /\ Fine

HeapStep ==
    /\ AllNone(<<vec, buf, pool, clock, opts, config, disk, log>>)
    /\ HeapNext
    /\ UNCHANGED <<vec, buf, pool, clock, opts, config, disk, log, now>>
VectorStep ==
    /\ AllNone(<<heap, buf, pool, clock, opts, config, disk, log>>)
    /\ VectorNext
    /\ UNCHANGED <<heap, buf, pool, clock, opts, config, disk, log, now>>
BufferStep ==
    /\ AllNone(<<heap, vec, pool, clock, opts, config, disk, log>>)
    /\ BufferNext
    /\ UNCHANGED <<heap, vec, pool, clock, opts, config, disk, log, now>>
MemPoolStep ==
    /\ AllNone(<<heap, vec, buf, clock, opts, config, disk, log>>)
    /\ MempoolNext
    /\ UNCHANGED <<heap, vec, buf, clock, opts, config, disk, log, now>>
ClockStep ==
    /\ AllNone(<<heap, vec, buf, pool, opts, config, disk, log>>)
    /\ ClockNext
    /\ UNCHANGED <<heap, vec, buf, pool, opts, config, disk, log>>
OptionsStep ==
    /\ AllNone(<<heap, vec, buf, pool, clock, config, disk, log>>)
    /\ OptionsNext
    /\ UNCHANGED <<heap, vec, buf, pool, clock, config, disk, log, now>>
ConfigStep ==
    /\ AllNone(<<heap, vec, buf, pool, clock, opts, disk, log>>)
    /\ ConfigNext
    /\ UNCHANGED <<heap, vec, buf, pool, clock, opts, disk, log, now>>
ConfigFileStep ==
    /\ AllNone(<<heap, vec, buf, pool, clock, opts, config, log>>)
    /\ DiskNext
    /\ UNCHANGED <<heap, vec, buf, pool, clock, opts, config, log, now>>
LogStep ==
    /\ AllNone(<<heap, vec, buf, pool, clock, opts, config, disk>>)
    /\ LogNext
    /\ UNCHANGED <<heap, vec, buf, pool, clock, opts, config, disk, now>>

Next ==
    \/ HeapStep \/ VectorStep \/ BufferStep \/ MemPoolStep \/ ClockStep
    \/ OptionsStep \/ ConfigStep \/ ConfigFileStep \/ LogStep

Spec == Init /\ [][Next]_vars

\* A call leaves the memory of its object only where HeapStaysInside,
\* VectorStaysInside, BufferStaysInside and MempoolStaysInside name the
\* circumstances.
StaysInside ==
    HeapStaysInside /\ VectorStaysInside /\ BufferStaysInside /\ MempoolStaysInside
=============================================================================
